---------------------------- MODULE Spec2Model ----------------------------
(***************************************************************************)
(* A model of the decision engine of Synthron-CFD-Trader-BASIC:            *)
(*   - performance/backtesting.py   BacktestingEngine                      *)
(*   - strategies/position_management.py   PositionManagement              *)
(*   - strategies/risk_management.py   RiskManagement                      *)
(*   - strategies/entry_exit.py   EntryExitStrategy                        *)
(*   - strategies/strategy_selector.py   StrategySelector                  *)
(*   - utils/exception_handler.py   ExceptionHandler, NotificationHandler  *)
(*                                                                         *)
(* Python floats are modelled as exact rationals <<numerator, denominator>>*)
(* in lowest terms with a positive denominator.  Every property below that *)
(* is reported to hold is an order or equality property that binary        *)
(* floating point preserves (a >= b implies a - b >= 0, rounding is        *)
(* monotone); properties that fail already fail in exact arithmetic.       *)
(* Products such as size * 0.9^k are exact here and rounded in Python; the  *)
(* prices offered at a threshold are ones where the float comparison of    *)
(* the code agrees with the exact one.                                     *)
(***************************************************************************)
EXTENDS Integers, Sequences, FiniteSets, TLC

(***************************************************************************)
(* Exact rational arithmetic standing for Python float arithmetic.         *)
(***************************************************************************)
Abs(x) == IF x < 0 THEN -x ELSE x

RECURSIVE GCD(_, _)
GCD(a, b) == IF b = 0 THEN a ELSE GCD(b, a % b)

LCM(a, b) == (a \div GCD(a, b)) * b

\* n/d in lowest terms, d > 0
Rat(n, d) ==
    LET s == IF d < 0 THEN -1 ELSE 1
        g == GCD(Abs(n), Abs(d))
    IN  <<(s * n) \div g, (s * d) \div g>>

R(i) == <<i, 1>>

Zero == R(0)

One == R(1)

RAdd(a, b) ==
    LET l == LCM(a[2], b[2])
    IN  Rat(a[1] * (l \div a[2]) + b[1] * (l \div b[2]), l)

RNeg(a) == <<-a[1], a[2]>>

RSub(a, b) == RAdd(a, RNeg(b))

RMul(a, b) ==
    LET g1 == GCD(Abs(a[1]), b[2])
        g2 == GCD(Abs(b[1]), a[2])
    IN  Rat((a[1] \div g1) * (b[1] \div g2), (a[2] \div g2) * (b[2] \div g1))

RLe(a, b) ==
    LET l == LCM(a[2], b[2])
    IN  a[1] * (l \div a[2]) <= b[1] * (l \div b[2])

RLt(a, b) == ~RLe(b, a)

RMin(a, b) == IF RLe(a, b) THEN a ELSE b

\* a / b for b # 0
RDiv(a, b) == RMul(a, Rat(b[2], b[1]))

(***************************************************************************)
(* State.                                                                  *)
(***************************************************************************)
VARIABLES
    \* BacktestingEngine (performance/backtesting.py)
    data,               \* self.data: the cleaned bars, in frame order
    initial_balance,    \* self.initial_balance
    commission,         \* self.commission
    spread,             \* self.spread
    slippage,           \* self.slippage
    trades,             \* self.trades
    balance_history,    \* self.balance_history
    current_balance,    \* self.current_balance
    current_position,   \* self.current_position
    bar,                \* rows of self.data consumed by the loop of run_backtest
    pc,                 \* "init" | "loop" | "done": position in run_backtest
    last_call,          \* arguments and pre-state of the latest _execute_trade call
    executed,           \* number of _execute_trade calls that took the Buy/Sell branch
    runs,                   \* run_backtest calls made on the engine so far
    \* PositionManagement (strategies/position_management.py) and its caller's Position
    trailing_stop_buffer,   \* self.trailing_stop_buffer
    entry_price,            \* the position's entry price, passed to every call
    direction,              \* "long" | "short", passed to apply_trailing_stop
    min_position,           \* the caller's lower size bound, passed to scale_out
    max_position,           \* the caller's upper size bound, passed to scale_in
    position_size,          \* the size the caller holds: each call's result is fed to the next
    trailing_stop_price,    \* the stop the caller holds, fed back likewise
    calls,                  \* number of calls made so far
    ret,                    \* the latest call: operation, time frame, outcome
    \* EntryExitStrategy (strategies/entry_exit.py)
    signal_ret,             \* the latest rule evaluation: rule, time frames, outcome
    \* StrategySelector (strategies/strategy_selector.py)
    strategies,                 \* self.strategies: the registered strategy names
    max_concurrent_strategies,  \* self.max_concurrent_strategies
    raising,                    \* <<strategy, asset>> evaluations whose callable raises
    hanging,                    \* <<strategy, asset>> evaluations whose callable never returns
    sel_pc,                     \* "idle" | "selected" | "direct" | "assets" | "pairs" | "returned"
    assets_data,                \* argument of run_multiple_assets: the asset symbols, in dict order
    market_conditions,          \* argument of run_multiple_assets
    time_frames,                \* argument of run_multiple_assets
    pairwise_data,              \* argument of run_multiple_assets: the pair names, in dict order
    jobs,                       \* the run_concurrent_strategies calls submitted to the current pool
    overall_results,            \* overall_results of run_multiple_assets
    sel_ret,                    \* the value the finished call returned
    \* RiskManagement (strategies/risk_management.py)
    account_balance,            \* self.account_balance
    leverage,                   \* self.leverage
    max_drawdown,               \* self.max_drawdown
    risk_per_trade,             \* self.risk_per_trade
    default_lot_size,           \* self.default_lot_size
    risk_ret,                   \* the latest RiskManagement call: method, arguments, outcome
    \* ExceptionHandler (utils/exception_handler.py)
    eh_smtp,                    \* how the mail server behaves in this run
    eh_call,                    \* the arguments of handle_critical_exception
    eh_pc,                      \* the statement handle_critical_exception has reached
    eh_trace,                   \* log records written and SMTP steps attempted, in order
    eh_out                      \* what handle_critical_exception raised

bt_vars == <<data, initial_balance, commission, spread, slippage, trades,
             balance_history, current_balance, current_position, bar, pc,
             last_call, executed, runs>>

pm_vars == <<trailing_stop_buffer, entry_price, direction, min_position,
             max_position, position_size, trailing_stop_price, calls, ret>>

sig_vars == <<signal_ret>>

sel_vars == <<strategies, max_concurrent_strategies, raising, hanging, sel_pc,
              assets_data, market_conditions, time_frames, pairwise_data, jobs,
              overall_results, sel_ret>>

rm_vars == <<account_balance, leverage, max_drawdown, risk_per_trade,
             default_lot_size, risk_ret>>

eh_vars == <<eh_smtp, eh_call, eh_pc, eh_trace, eh_out>>

vars == <<bt_vars, pm_vars, sig_vars, sel_vars, rm_vars, eh_vars>>

(***************************************************************************)
(* ExceptionHandler.handle_critical_exception and                          *)
(* NotificationHandler.send_email, statement by statement.  The mail       *)
(* server is the environment: it delivers, refuses the connection, rejects *)
(* the login, rejects the recipients, or accepts the connection and never  *)
(* answers.  smtplib.SMTP is created without a timeout, so a read from a   *)
(* server that never answers does not return.                              *)
(***************************************************************************)
SMTPBehaviours == {"delivers", "refuses_connection", "rejects_login",
                   "rejects_recipients", "silent"}

CriticalExceptions == {"ValueError", "ConnectionError", "RuntimeError", "MemoryError"}

\* "Critical" is the default of the context parameter
Contexts == {"Critical", "Trading", "DataFeed"}

NoCritical == [exc |-> "", context |-> ""]

\* logger.setLevel(logging.ERROR): the levels the logger lets through
EnabledLevels == {"ERROR", "CRITICAL"}

LogRecord(level, message) == [event |-> "log", detail |-> level, message |-> message]

SmtpStep(step) == [event |-> "smtp", detail |-> step, message |-> ""]

\* logger.<level>(message)
Log(trace, level, message) ==
    IF level \in EnabledLevels THEN Append(trace, LogRecord(level, message)) ELSE trace

\* lines 79-80: the call and its two critical records
HandleCriticalException(exc, context) ==
    /\ eh_pc = "idle"
    /\ eh_call' = [exc |-> exc, context |-> context]
    /\ eh_trace' = Log(Log(eh_trace, "CRITICAL", "Critical exception occurred"),
                       "CRITICAL", "Traceback")
    /\ eh_pc' = "send_email"
    /\ UNCHANGED <<eh_smtp, eh_out>>
    /\ UNCHANGED <<bt_vars, pm_vars, sig_vars, sel_vars, rm_vars>>

\* lines 83-85 and 40-46: the message is built and smtplib.SMTP connects
SendEmailConnect ==
    /\ eh_pc = "send_email"
    /\ eh_trace' = Append(eh_trace, SmtpStep("connect"))
    /\ eh_pc' = CASE eh_smtp = "refuses_connection" -> "email_failed"
                  [] eh_smtp = "silent" -> "blocked"
                  [] OTHER -> "login"
    /\ UNCHANGED <<eh_smtp, eh_call, eh_out>>
    /\ UNCHANGED <<bt_vars, pm_vars, sig_vars, sel_vars, rm_vars>>

\* lines 47-48: server.starttls() and server.login(...)
SendEmailLogin ==
    /\ eh_pc = "login"
    /\ eh_trace' = Append(eh_trace, SmtpStep("login"))
    /\ eh_pc' = IF eh_smtp = "rejects_login" THEN "email_failed" ELSE "sendmail"
    /\ UNCHANGED <<eh_smtp, eh_call, eh_out>>
    /\ UNCHANGED <<bt_vars, pm_vars, sig_vars, sel_vars, rm_vars>>

\* line 49: server.sendmail(...)
SendEmailSendmail ==
    /\ eh_pc = "sendmail"
    /\ eh_trace' = Append(eh_trace, SmtpStep("sendmail"))
    /\ eh_pc' = IF eh_smtp = "rejects_recipients" THEN "email_failed" ELSE "email_sent"
    /\ UNCHANGED <<eh_smtp, eh_call, eh_out>>
    /\ UNCHANGED <<bt_vars, pm_vars, sig_vars, sel_vars, rm_vars>>

\* line 50: logger.info, and send_email returns
SendEmailSucceeded ==
    /\ eh_pc = "email_sent"
    /\ eh_trace' = Log(eh_trace, "INFO", "Critical notification email sent successfully.")
    /\ eh_pc' = "halt"
    /\ UNCHANGED <<eh_smtp, eh_call, eh_out>>
    /\ UNCHANGED <<bt_vars, pm_vars, sig_vars, sel_vars, rm_vars>>

\* lines 51-52: except Exception: logger.error, and send_email returns
SendEmailFailed ==
    /\ eh_pc = "email_failed"
    /\ eh_trace' = Log(eh_trace, "ERROR", "Failed to send email notification")
    /\ eh_pc' = "halt"
    /\ UNCHANGED <<eh_smtp, eh_call, eh_out>>
    /\ UNCHANGED <<bt_vars, pm_vars, sig_vars, sel_vars, rm_vars>>

\* line 88: raise SystemExit(...)
Halt ==
    /\ eh_pc = "halt"
    /\ eh_out' = "SystemExit"
    /\ eh_pc' = "raised"
    /\ UNCHANGED <<eh_smtp, eh_call, eh_trace>>
    /\ UNCHANGED <<bt_vars, pm_vars, sig_vars, sel_vars, rm_vars>>

HandlerInit ==
    /\ eh_smtp \in SMTPBehaviours
    /\ eh_call = NoCritical
    /\ eh_pc = "idle"
    /\ eh_trace = <<>>
    /\ eh_out = "none"

HandlerIdle ==
    /\ eh_smtp = "delivers"
    /\ eh_call = NoCritical
    /\ eh_pc = "idle"
    /\ eh_trace = <<>>
    /\ eh_out = "none"

\* the steps of the thread running handle_critical_exception
HandlerProgress ==
    \/ SendEmailConnect
    \/ SendEmailLogin
    \/ SendEmailSendmail
    \/ SendEmailSucceeded
    \/ SendEmailFailed
    \/ Halt

HandlerNext ==
    \/ \E exc \in CriticalExceptions, context \in Contexts :
           HandleCriticalException(exc, context)
    \/ HandlerProgress

(***************************************************************************)
(* Bounds of the backtest model.                                           *)
(***************************************************************************)
MaxBars == 3

Closes == {0, 2}

Signals == {-2, -1, 0, 1, 2}

\* commission, spread, slippage: the defaults of __init__ (0.0005, 0.0002,
\* 0.0001), no costs at all, and heavy costs
CostSettings ==
    { [commission |-> Rat(5, 10000), spread |-> Rat(2, 10000), slippage |-> Rat(1, 10000)],
      [commission |-> Zero,          spread |-> Zero,          slippage |-> Zero],
      [commission |-> Rat(1, 2),     spread |-> Rat(1, 4),     slippage |-> Rat(1, 4)] }

InitialBalances == {Zero, R(3)}

\* run_backtest calls made on one engine
MaxRuns == 2

\* the frame's index: ascending, or descending (the engine does not sort)
IndexOrders(n) == { [i \in 1..n |-> i], [i \in 1..n |-> n + 1 - i] }

Frames ==
    UNION { { [i \in 1..n |-> [timestamp |-> idx[i], Close |-> R(cl[i])]] :
                idx \in IndexOrders(n), cl \in [1..n -> Closes] } : n \in {MaxBars} }

\* an engine that is run more than once: two bars at Close 10
RerunFrames == { [i \in 1..2 |-> [timestamp |-> i, Close |-> R(10)]] }

RerunBalances == {R(1000)}

NoCall == [signal |-> 0, price |-> Zero, trade_price |-> Zero, total_cost |-> Zero,
           balance_before |-> Zero, position_before |-> 0]

(***************************************************************************)
(* BacktestingEngine._execute_trade                                        *)
(***************************************************************************)
TradePrice(price) == RMul(price, RAdd(RAdd(One, spread), slippage))

TradeValue(signal, price) == RMul(TradePrice(price), R(Abs(signal)))

CommissionCost(signal, price) == RMul(TradeValue(signal, price), commission)

\* a total cost that leaves the commission out
TotalCost_WithoutCommission(signal, price) == TradeValue(signal, price)

TotalCost(signal, price) == RAdd(TradeValue(signal, price), CommissionCost(signal, price))

\* a buy that skips the balance check of line 56
BuyAccepted_NoBalanceCheck(signal, price) == TRUE

BuyAccepted(signal, price) == RLe(TotalCost(signal, price), current_balance)

\* a sell that skips the holdings check of line 63
SellAccepted_NoHoldingsCheck(signal) == TRUE

SellAccepted(signal) == Abs(signal) <= current_position

Executes(signal, price) ==
    \/ signal > 0 /\ BuyAccepted(signal, price)
    \/ signal < 0 /\ SellAccepted(signal)

\* a sell credited with the full trade value, no commission deducted
BalanceAfter_SellWithoutCommission(signal, price) ==
    IF signal > 0 /\ BuyAccepted(signal, price)
    THEN RSub(current_balance, TotalCost(signal, price))
    ELSE IF signal < 0 /\ SellAccepted(signal)
    THEN RAdd(current_balance, TradeValue(signal, price))
    ELSE current_balance

BalanceAfter(signal, price) ==
    IF signal > 0 /\ BuyAccepted(signal, price)
    THEN RSub(current_balance, TotalCost(signal, price))
    ELSE IF signal < 0 /\ SellAccepted(signal)
    THEN RAdd(current_balance, RSub(TradeValue(signal, price), CommissionCost(signal, price)))
    ELSE current_balance

\* a position that moves by the signal whether or not the trade was accepted
PositionAfter_AppliesRejected(signal, price) == current_position + signal

PositionAfter(signal, price) ==
    IF Executes(signal, price) THEN current_position + signal ELSE current_position

TradeEntry(signal, price, timestamp) ==
    [timestamp |-> timestamp,
     signal    |-> signal,
     price     |-> TradePrice(price),
     cost      |-> TotalCost(signal, price),
     balance   |-> BalanceAfter(signal, price),
     position  |-> PositionAfter(signal, price)]

LedgerAfter(signal, price, timestamp) ==
    Append(trades, TradeEntry(signal, price, timestamp))

execute_trade(signal, price, timestamp) ==
    /\ current_balance' = BalanceAfter(signal, price)
    /\ current_position' = PositionAfter(signal, price)
    /\ trades' = LedgerAfter(signal, price, timestamp)
    /\ executed' = IF Executes(signal, price) THEN executed + 1 ELSE executed
    /\ last_call' = [signal |-> signal, price |-> price,
                     trade_price |-> TradePrice(price),
                     total_cost |-> TotalCost(signal, price),
                     balance_before |-> current_balance,
                     position_before |-> current_position]

(***************************************************************************)
(* BacktestingEngine.run_backtest                                          *)
(***************************************************************************)
\* a loop that walks the frame backwards
RowAt_Reversed(i) == data[Len(data) + 1 - i]

RowAt(i) == data[i]

BalanceSnapshot(timestamp) ==
    [timestamp |-> timestamp, balance |-> current_balance', position |-> current_position']

\* "Starting backtest...": the call enters the loop over self.data.iterrows()
RunBacktestStart ==
    /\ pc = "init"
    /\ pc' = "loop"
    /\ runs' = runs + 1
    /\ UNCHANGED <<data, initial_balance, commission, spread, slippage, trades,
                   balance_history, current_balance, current_position, bar,
                   last_call, executed>>
    /\ UNCHANGED <<pm_vars, sig_vars, sel_vars, rm_vars, eh_vars>>

\* one iteration of the loop: the strategy returns `signal` for the row
RunBacktestBar(signal) ==
    /\ pc = "loop"
    /\ bar < Len(data)
    /\ LET row == RowAt(bar + 1) IN
         /\ IF signal # 0
            THEN execute_trade(signal, row.Close, row.timestamp)
            ELSE /\ UNCHANGED <<current_balance, current_position, trades, executed>>
                 /\ last_call' = NoCall
         /\ balance_history' = Append(balance_history, BalanceSnapshot(row.timestamp))
    /\ bar' = bar + 1
    /\ UNCHANGED <<data, initial_balance, commission, spread, slippage, pc, runs>>
    /\ UNCHANGED <<pm_vars, sig_vars, sel_vars, rm_vars, eh_vars>>

\* the loop is exhausted: "Backtest completed.", the frames are returned
RunBacktestReturn ==
    /\ pc = "loop"
    /\ bar = Len(data)
    /\ pc' = "done"
    /\ UNCHANGED <<data, initial_balance, commission, spread, slippage, trades,
                   balance_history, current_balance, current_position, bar,
                   last_call, executed, runs>>
    /\ UNCHANGED <<pm_vars, sig_vars, sel_vars, rm_vars, eh_vars>>

\* a further run_backtest call that starts from a fresh engine state
RunBacktestAgain_FreshState ==
    /\ pc = "done"
    /\ runs < MaxRuns
    /\ pc' = "loop"
    /\ bar' = 0
    /\ runs' = runs + 1
    /\ current_balance' = initial_balance
    /\ current_position' = 0
    /\ trades' = <<>>
    /\ balance_history' = <<>>
    /\ UNCHANGED <<data, initial_balance, commission, spread, slippage,
                   last_call, executed>>
    /\ UNCHANGED <<pm_vars, sig_vars, sel_vars, rm_vars, eh_vars>>

\* a further run_backtest call on the same engine: the loop starts over the
\* same frame, nothing else is assigned
RunBacktestAgain ==
    /\ pc = "done"
    /\ runs < MaxRuns
    /\ pc' = "loop"
    /\ bar' = 0
    /\ runs' = runs + 1
    /\ UNCHANGED <<data, initial_balance, commission, spread, slippage, trades,
                   balance_history, current_balance, current_position,
                   last_call, executed>>
    /\ UNCHANGED <<pm_vars, sig_vars, sel_vars, rm_vars, eh_vars>>


(***************************************************************************)
(* Time-frame tables.  Every rule looks its time frame up the same way:    *)
(*     if time_frame not in valid_timeframes: time_frame = <fallback>      *)
(*     ... valid_timeframes[time_frame] ...                                *)
(* A dict subscript with a key the dict does not hold raises KeyError.     *)
(***************************************************************************)
Resolve(valid_timeframes, time_frame, fallback) ==
    IF time_frame \in DOMAIN valid_timeframes THEN time_frame ELSE fallback

\* the subscript valid_timeframes[time_frame] raises KeyError
RaisesKeyError(valid_timeframes, time_frame) ==
    time_frame \notin DOMAIN valid_timeframes

\* the time-frame labels callers pass: "1H" is the default argument of every
\* operation but scalping_strategy and cointegration_strategy
TimeFrames == {"1m", "1h", "15m", "1H"}

Returned(v) == [raised |-> "none", value |-> v, aux |-> Zero]

ReturnedPair(v, w) == [raised |-> "none", value |-> v, aux |-> w]

Raised(e) == [raised |-> e, value |-> Zero, aux |-> Zero]

Percent(x) == RMul(x, Rat(1, 100))

(***************************************************************************)
(* PositionManagement                                                      *)
(***************************************************************************)
\* valid_timeframes of scale_in and of scale_out (movement in percent)
ScaleTimeframes ==
    ("1m" :> Rat(1, 2)) @@ ("5m" :> R(1)) @@ ("15m" :> Rat(3, 2)) @@ ("30m" :> R(2)) @@
    ("1h" :> R(3)) @@ ("4h" :> R(5)) @@ ("1D" :> R(10))

\* valid_timeframes of apply_trailing_stop (movement as a fraction)
TrailingTimeframes ==
    ("1m" :> Rat(1, 1000)) @@ ("5m" :> Rat(2, 1000)) @@ ("1h" :> Rat(5, 1000)) @@
    ("1D" :> Rat(1, 100))

\* valid_timeframes of lock_profit (profit in percent)
LockTimeframes ==
    ("1m" :> Rat(1, 2)) @@ ("5m" :> R(1)) @@ ("1h" :> R(2)) @@ ("1D" :> R(5))

\* valid_timeframes of partial_closing (ascending profit levels)
PartialTimeframes ==
    ("1m" :> <<Rat(2, 100)>>) @@ ("5m" :> <<Rat(2, 100), Rat(5, 100)>>) @@
    ("1h" :> <<Rat(5, 100), Rat(10, 100)>>) @@ ("1D" :> <<Rat(10, 100), Rat(20, 100)>>)

scale_in(current_price, entry, cur_position, max_pos, scale_step, time_frame) ==
    LET tf == Resolve(ScaleTimeframes, time_frame, "1H") IN
    IF RaisesKeyError(ScaleTimeframes, tf) THEN Raised("KeyError")
    ELSE LET scale_threshold == ScaleTimeframes[tf] IN
         IF /\ RLt(RMul(entry, RAdd(One, Percent(scale_threshold))), current_price)
            /\ RLt(cur_position, max_pos)
         THEN LET scale_amount == RMin(RMul(scale_step, max_pos),
                                       RSub(max_pos, cur_position))
              IN  Returned(RAdd(cur_position, scale_amount))
         ELSE Returned(cur_position)

scale_out(current_price, entry, cur_position, min_pos, scale_step, time_frame) ==
    LET tf == Resolve(ScaleTimeframes, time_frame, "1H") IN
    IF RaisesKeyError(ScaleTimeframes, tf) THEN Raised("KeyError")
    ELSE LET scale_threshold == ScaleTimeframes[tf] IN
         IF /\ RLt(current_price, RMul(entry, RSub(One, Percent(scale_threshold))))
            /\ RLt(min_pos, cur_position)
         THEN LET scale_amount == RMin(RMul(scale_step, cur_position),
                                       RSub(cur_position, min_pos))
              IN  Returned(RSub(cur_position, scale_amount))
         ELSE Returned(cur_position)

apply_trailing_stop(current_price, stop, dir, time_frame) ==
    LET tf == Resolve(TrailingTimeframes, time_frame, "1H") IN
    IF RaisesKeyError(TrailingTimeframes, tf) THEN Raised("KeyError")
    ELSE LET buffer == TrailingTimeframes[tf] IN
         IF dir = "long" /\ RLt(RMul(stop, RAdd(One, buffer)), current_price)
         THEN Returned(RMul(current_price, RSub(One, trailing_stop_buffer)))
         ELSE IF dir = "short" /\ RLt(current_price, RMul(stop, RSub(One, buffer)))
         THEN Returned(RMul(current_price, RAdd(One, trailing_stop_buffer)))
         ELSE Returned(stop)

ProfitPercent(current_price, entry) ==
    IF RLt(entry, current_price) THEN RDiv(RSub(current_price, entry), entry) ELSE Zero

\* lock_profit that locks only above the threshold, not at it
lock_profit_StrictThreshold(current_price, entry, size, lock_threshold, time_frame) ==
    LET tf == Resolve(LockTimeframes, time_frame, "1H") IN
    IF RaisesKeyError(LockTimeframes, tf) THEN Raised("KeyError")
    ELSE LET profit_threshold == LockTimeframes[tf] IN
         IF RLt(Percent(profit_threshold), ProfitPercent(current_price, entry))
         THEN LET lock_size == RMul(size, Rat(25, 100))
              IN  ReturnedPair(RSub(size, lock_size), lock_size)
         ELSE ReturnedPair(size, Zero)

lock_profit(current_price, entry, size, lock_threshold, time_frame) ==
    LET tf == Resolve(LockTimeframes, time_frame, "1H") IN
    IF RaisesKeyError(LockTimeframes, tf) THEN Raised("KeyError")
    ELSE LET profit_threshold == LockTimeframes[tf] IN
         IF RLe(Percent(profit_threshold), ProfitPercent(current_price, entry))
         THEN LET lock_size == RMul(size, Rat(25, 100))
              IN  ReturnedPair(RSub(size, lock_size), lock_size)
         ELSE ReturnedPair(size, Zero)

\* a loop that closes 10% of the size it was handed at every reached level
CloseAtLevels_OfOriginalSize(current_price, entry, size, levels, k) ==
    LET reached == {j \in k..Len(levels) :
                      RLe(RMul(entry, RAdd(One, levels[j])), current_price)}
    IN  RSub(size, RMul(RMul(size, Rat(1, 10)), R(Cardinality(reached))))

\* the loop "for level in levels" from the k-th level on
RECURSIVE CloseAtLevels(_, _, _, _, _)
CloseAtLevels(current_price, entry, size, levels, k) ==
    IF k > Len(levels) THEN size
    ELSE IF RLe(RMul(entry, RAdd(One, levels[k])), current_price)
         THEN CloseAtLevels(current_price, entry, RSub(size, RMul(size, Rat(1, 10))),
                            levels, k + 1)
         ELSE CloseAtLevels(current_price, entry, size, levels, k + 1)

\* partial_closing that keeps the levels its caller passed
partial_closing_UsesCallerLevels(current_price, entry, size, levels, time_frame) ==
    LET tf == Resolve(PartialTimeframes, time_frame, "1H") IN
    IF RaisesKeyError(PartialTimeframes, tf) THEN Raised("KeyError")
    ELSE Returned(CloseAtLevels(current_price, entry, size,
                                IF levels = <<>> THEN PartialTimeframes[tf] ELSE levels, 1))

partial_closing(current_price, entry, size, levels, time_frame) ==
    LET tf == Resolve(PartialTimeframes, time_frame, "1H") IN
    IF RaisesKeyError(PartialTimeframes, tf) THEN Raised("KeyError")
    ELSE Returned(CloseAtLevels(current_price, entry, size, PartialTimeframes[tf], 1))

(***************************************************************************)
(* RiskManagement.calculate_stop_loss / calculate_take_profit              *)
(***************************************************************************)
StopLossTimeframes ==
    ("1m" :> Rat(1, 1000)) @@ ("5m" :> Rat(2, 1000)) @@ ("1h" :> Rat(5, 1000)) @@
    ("4h" :> Rat(1, 100)) @@ ("1D" :> Rat(2, 100))

TakeProfitTimeframes ==
    ("1m" :> Rat(2, 1000)) @@ ("5m" :> Rat(5, 1000)) @@ ("1h" :> Rat(1, 100)) @@
    ("4h" :> Rat(2, 100)) @@ ("1D" :> Rat(5, 100))

\* calculate_stop_loss scaling the table's buffer by the caller's, as
\* calculate_take_profit does
calculate_stop_loss_ScaledByCaller(entry, dir, stop_loss_buffer, time_frame) ==
    LET tf == Resolve(StopLossTimeframes, time_frame, "1H") IN
    IF RaisesKeyError(StopLossTimeframes, tf) THEN Raised("KeyError")
    ELSE LET buffer == RMul(stop_loss_buffer, StopLossTimeframes[tf]) IN
         IF dir = "long" THEN Returned(RMul(entry, RSub(One, buffer)))
         ELSE IF dir = "short" THEN Returned(RMul(entry, RAdd(One, buffer)))
         ELSE Raised("ValueError")

calculate_stop_loss(entry, dir, stop_loss_buffer, time_frame) ==
    LET tf == Resolve(StopLossTimeframes, time_frame, "1H") IN
    IF RaisesKeyError(StopLossTimeframes, tf) THEN Raised("KeyError")
    ELSE LET buffer == StopLossTimeframes[tf] IN
         IF dir = "long" THEN Returned(RMul(entry, RSub(One, buffer)))
         ELSE IF dir = "short" THEN Returned(RMul(entry, RAdd(One, buffer)))
         ELSE Raised("ValueError")

calculate_take_profit(entry, dir, take_profit_buffer, time_frame) ==
    LET tf == Resolve(TakeProfitTimeframes, time_frame, "1H") IN
    IF RaisesKeyError(TakeProfitTimeframes, tf) THEN Raised("KeyError")
    ELSE LET buffer == TakeProfitTimeframes[tf] IN
         IF dir = "long"
         THEN Returned(RMul(entry, RAdd(One, RMul(take_profit_buffer, buffer))))
         ELSE IF dir = "short"
         THEN Returned(RMul(entry, RSub(One, RMul(take_profit_buffer, buffer))))
         ELSE Raised("ValueError")

(***************************************************************************)
(* A position driven through PositionManagement and RiskManagement: the    *)
(* caller keeps the size and the stop each call returns and passes them to *)
(* the next call; a call that raises returns nothing and changes nothing.  *)
(***************************************************************************)
MaxCalls == 3

Prices == {R(90), Rat(199, 2), R(101), R(120)}

ScaleSteps == {Zero, Rat(1, 10), R(4)}

Buffers == {Rat(1, 100), R(2)}

Directions == {"long", "short", "flat"}

\* [min_position, max_position, size, direction] of the position at the start
PositionSettings ==
    { [min |-> R(0),   max |-> R(10), size |-> R(5),  direction |-> "long"],
      [min |-> R(-10), max |-> R(10), size |-> R(5),  direction |-> "long"],
      [min |-> R(-10), max |-> R(10), size |-> R(-5), direction |-> "short"] }

NoReturn == [op |-> "none", time_frame |-> "", raised |-> "none",
             before |-> Zero, value |-> Zero, aux |-> Zero]

Outcome(op, time_frame, before, r) ==
    [op |-> op, time_frame |-> time_frame, raised |-> r.raised,
     before |-> before, value |-> r.value, aux |-> r.aux]

\* the value the caller holds after the call
Kept(before, r) == IF r.raised = "none" THEN r.value ELSE before

ScaleIn(current_price, scale_step, time_frame) ==
    /\ calls < MaxCalls
    /\ LET r == scale_in(current_price, entry_price, position_size, max_position,
                         scale_step, time_frame) IN
         /\ position_size' = Kept(position_size, r)
         /\ ret' = Outcome("scale_in", time_frame, position_size, r)
    /\ calls' = calls + 1
    /\ UNCHANGED <<trailing_stop_buffer, entry_price, direction, min_position,
                   max_position, trailing_stop_price>>
    /\ UNCHANGED <<bt_vars, sig_vars, sel_vars, rm_vars, eh_vars>>

ScaleOut(current_price, scale_step, time_frame) ==
    /\ calls < MaxCalls
    /\ LET r == scale_out(current_price, entry_price, position_size, min_position,
                          scale_step, time_frame) IN
         /\ position_size' = Kept(position_size, r)
         /\ ret' = Outcome("scale_out", time_frame, position_size, r)
    /\ calls' = calls + 1
    /\ UNCHANGED <<trailing_stop_buffer, entry_price, direction, min_position,
                   max_position, trailing_stop_price>>
    /\ UNCHANGED <<bt_vars, sig_vars, sel_vars, rm_vars, eh_vars>>

ApplyTrailingStop(current_price, time_frame) ==
    /\ calls < MaxCalls
    /\ LET r == apply_trailing_stop(current_price, trailing_stop_price, direction,
                                    time_frame) IN
         /\ trailing_stop_price' = Kept(trailing_stop_price, r)
         /\ ret' = Outcome("apply_trailing_stop", time_frame, trailing_stop_price, r)
    /\ calls' = calls + 1
    /\ UNCHANGED <<trailing_stop_buffer, entry_price, direction, min_position,
                   max_position, position_size>>
    /\ UNCHANGED <<bt_vars, sig_vars, sel_vars, rm_vars, eh_vars>>

LockProfit(current_price, lock_threshold, time_frame) ==
    /\ calls < MaxCalls
    /\ LET r == lock_profit(current_price, entry_price, position_size, lock_threshold,
                            time_frame) IN
         /\ position_size' = Kept(position_size, r)
         /\ ret' = Outcome("lock_profit", time_frame, position_size, r)
    /\ calls' = calls + 1
    /\ UNCHANGED <<trailing_stop_buffer, entry_price, direction, min_position,
                   max_position, trailing_stop_price>>
    /\ UNCHANGED <<bt_vars, sig_vars, sel_vars, rm_vars, eh_vars>>

PartialClosing(current_price, levels, time_frame) ==
    /\ calls < MaxCalls
    /\ LET r == partial_closing(current_price, entry_price, position_size, levels,
                                time_frame) IN
         /\ position_size' = Kept(position_size, r)
         /\ ret' = Outcome("partial_closing", time_frame, position_size, r)
    /\ calls' = calls + 1
    /\ UNCHANGED <<trailing_stop_buffer, entry_price, direction, min_position,
                   max_position, trailing_stop_price>>
    /\ UNCHANGED <<bt_vars, sig_vars, sel_vars, rm_vars, eh_vars>>

CalculateStopLoss(dir, stop_loss_buffer, time_frame) ==
    /\ calls < MaxCalls
    /\ ret' = Outcome("calculate_stop_loss", time_frame, entry_price,
                      calculate_stop_loss(entry_price, dir, stop_loss_buffer, time_frame))
    /\ calls' = calls + 1
    /\ UNCHANGED <<trailing_stop_buffer, entry_price, direction, min_position,
                   max_position, position_size, trailing_stop_price>>
    /\ UNCHANGED <<bt_vars, sig_vars, sel_vars, rm_vars, eh_vars>>

CalculateTakeProfit(dir, take_profit_buffer, time_frame) ==
    /\ calls < MaxCalls
    /\ ret' = Outcome("calculate_take_profit", time_frame, entry_price,
                      calculate_take_profit(entry_price, dir, take_profit_buffer,
                                            time_frame))
    /\ calls' = calls + 1
    /\ UNCHANGED <<trailing_stop_buffer, entry_price, direction, min_position,
                   max_position, position_size, trailing_stop_price>>
    /\ UNCHANGED <<bt_vars, sig_vars, sel_vars, rm_vars, eh_vars>>

\* PositionManagement.__init__ with its default trailing_stop_buffer, and the
\* caller's position
PositionInit ==
    /\ trailing_stop_buffer = Rat(1, 100)
    /\ entry_price = R(100)
    /\ trailing_stop_price = R(100)
    /\ \E p \in PositionSettings :
         /\ min_position = p.min
         /\ max_position = p.max
         /\ position_size = p.size
         /\ direction = p.direction
    /\ calls = 0
    /\ ret = NoReturn

\* no position is being managed
PositionIdle ==
    /\ trailing_stop_buffer = Rat(1, 100)
    /\ entry_price = R(100)
    /\ trailing_stop_price = R(100)
    /\ min_position = Zero
    /\ max_position = Zero
    /\ position_size = Zero
    /\ direction = "long"
    /\ calls = 0
    /\ ret = NoReturn

PositionNext ==
    \/ \E p \in Prices, st \in ScaleSteps, tf \in TimeFrames : ScaleIn(p, st, tf)
    \/ \E p \in Prices, st \in ScaleSteps, tf \in TimeFrames : ScaleOut(p, st, tf)
    \/ \E p \in Prices, tf \in TimeFrames : ApplyTrailingStop(p, tf)
    \/ \E p \in Prices, tf \in TimeFrames : LockProfit(p, Rat(2, 100), tf)
    \/ \E p \in Prices, tf \in TimeFrames : PartialClosing(p, <<>>, tf)
    \/ \E d \in Directions, b \in Buffers, tf \in TimeFrames : CalculateStopLoss(d, b, tf)
    \/ \E d \in Directions, b \in Buffers, tf \in TimeFrames : CalculateTakeProfit(d, b, tf)

(***************************************************************************)
(* EntryExitStrategy: the signal rules.  The indicator library is an       *)
(* external collaborator; the last element of each series it returns is an *)
(* input of the rule.                                                      *)
(***************************************************************************)
TrendTimeframes ==
    ("1m" :> <<5, 15>>) @@ ("5m" :> <<15, 30>>) @@ ("15m" :> <<30, 60>>) @@
    ("1h" :> <<50, 200>>) @@ ("4h" :> <<50, 200>>) @@ ("1D" :> <<200, 500>>) @@
    ("1W" :> <<500, 1000>>)

MeanReversionTimeframes ==
    ("5m" :> <<5, 15>>) @@ ("15m" :> <<15, 30>>) @@ ("30m" :> <<30, 60>>) @@
    ("1h" :> <<50, 200>>) @@ ("4h" :> <<50, 200>>) @@ ("1D" :> <<200, 500>>)

BreakoutTimeframes ==
    ("15m" :> <<5, 15>>) @@ ("1h" :> <<14, 30>>) @@ ("4h" :> <<14, 50>>) @@
    ("1D" :> <<50, 100>>)

MomentumTimeframes ==
    ("1m" :> <<5, 10>>) @@ ("5m" :> <<5, 15>>) @@ ("15m" :> <<10, 30>>) @@
    ("1h" :> <<30, 50>>) @@ ("4h" :> <<50, 100>>) @@ ("1D" :> <<100, 200>>)

ScalpingTimeframes ==
    ("1m" :> <<5, 10>>) @@ ("5m" :> <<5, 10>>) @@ ("15m" :> <<10, 15>>) @@
    ("30m" :> <<15, 20>>)

CointegrationTimeframes ==
    ("1h" :> <<20>>) @@ ("4h" :> <<50>>) @@ ("1D" :> <<100>>)

Signalled(sig, used) == [raised |-> "none", signal |-> sig, used |-> used]

SignalRaised(e, used) == [raised |-> e, signal |-> "", used |-> used]

\* sma_short, sma_long: last elements of the moving averages over the two
\* periods of the time frame's entry
trend_following(current_price, sma_short, sma_long, time_frame) ==
    LET tf == Resolve(TrendTimeframes, time_frame, "1H") IN
    IF RaisesKeyError(TrendTimeframes, tf) THEN SignalRaised("KeyError", tf)
    ELSE IF current_price > sma_short /\ sma_short > sma_long THEN Signalled("BUY", tf)
    ELSE IF current_price < sma_short /\ sma_short < sma_long THEN Signalled("SELL", tf)
    ELSE Signalled("HOLD", tf)

mean_reversion(z_score, rsi, time_frame) ==
    LET tf == Resolve(MeanReversionTimeframes, time_frame, "1H") IN
    IF RaisesKeyError(MeanReversionTimeframes, tf) THEN SignalRaised("KeyError", tf)
    ELSE IF z_score > 2 /\ rsi > 70 THEN Signalled("SELL", tf)
    ELSE IF z_score < -2 /\ rsi < 30 THEN Signalled("BUY", tf)
    ELSE Signalled("HOLD", tf)

breakout_strategy(current_price, upper_band, lower_band, ema, time_frame) ==
    LET tf == Resolve(BreakoutTimeframes, time_frame, "1H") IN
    IF RaisesKeyError(BreakoutTimeframes, tf) THEN SignalRaised("KeyError", tf)
    ELSE IF current_price > upper_band /\ current_price > ema THEN Signalled("BUY", tf)
    ELSE IF current_price < lower_band /\ current_price < ema THEN Signalled("SELL", tf)
    ELSE Signalled("HOLD", tf)

momentum_strategy(rsi, z_score, time_frame) ==
    LET tf == Resolve(MomentumTimeframes, time_frame, "1H") IN
    IF RaisesKeyError(MomentumTimeframes, tf) THEN SignalRaised("KeyError", tf)
    ELSE IF rsi < 30 /\ z_score < -2 THEN Signalled("BUY", tf)
    ELSE IF rsi > 70 /\ z_score > 2 THEN Signalled("SELL", tf)
    ELSE Signalled("HOLD", tf)

scalping_strategy(ema_fast, ema_slow, rsi, time_frame) ==
    LET tf == Resolve(ScalpingTimeframes, time_frame, "1m") IN
    IF RaisesKeyError(ScalpingTimeframes, tf) THEN SignalRaised("KeyError", tf)
    ELSE IF ema_fast > ema_slow /\ 30 < rsi /\ rsi < 70 THEN Signalled("BUY", tf)
    ELSE IF ema_fast < ema_slow /\ 30 < rsi /\ rsi < 70 THEN Signalled("SELL", tf)
    ELSE Signalled("HOLD", tf)

\* the rule never subscripts its table: the label is only logged
cointegration_strategy(p_value, z_score, time_frame) ==
    LET tf == Resolve(CointegrationTimeframes, time_frame, "1H") IN
    IF RLt(p_value, Rat(5, 100))
    THEN IF z_score > 2 THEN Signalled("SELL", tf)
         ELSE IF z_score < -2 THEN Signalled("BUY", tf)
         ELSE Signalled("HOLD", tf)
    ELSE Signalled("HOLD", tf)

\* labels passed to the rules: every key of the six tables, the default
\* argument "1H" and a label no table holds
SignalTimeFrames == {"1m", "5m", "15m", "30m", "1h", "4h", "1D", "1W", "1H", "2h"}

\* last values of price, moving averages and bands
Levels == {1, 2, 3}

ZScores == {-3, 0, 3}

RSIs == {20, 50, 80}

PValues == {Rat(1, 100), Rat(5, 100), Rat(1, 2)}

NoSignal == [rule |-> "none", time_frame |-> "", raised |-> "none",
             signal |-> "", used |-> ""]

Evaluated(rule, time_frame, r) ==
    [rule |-> rule, time_frame |-> time_frame, raised |-> r.raised,
     signal |-> r.signal, used |-> r.used]

TrendFollowing(current_price, sma_short, sma_long, time_frame) ==
    /\ signal_ret' = Evaluated("trend_following", time_frame,
                               trend_following(current_price, sma_short, sma_long, time_frame))
    /\ UNCHANGED <<bt_vars, pm_vars, sel_vars, rm_vars, eh_vars>>

MeanReversion(z_score, rsi, time_frame) ==
    /\ signal_ret' = Evaluated("mean_reversion", time_frame,
                               mean_reversion(z_score, rsi, time_frame))
    /\ UNCHANGED <<bt_vars, pm_vars, sel_vars, rm_vars, eh_vars>>

BreakoutStrategy(current_price, upper_band, lower_band, ema, time_frame) ==
    /\ signal_ret' = Evaluated("breakout_strategy", time_frame,
                               breakout_strategy(current_price, upper_band, lower_band,
                                                 ema, time_frame))
    /\ UNCHANGED <<bt_vars, pm_vars, sel_vars, rm_vars, eh_vars>>

MomentumStrategy(rsi, z_score, time_frame) ==
    /\ signal_ret' = Evaluated("momentum_strategy", time_frame,
                               momentum_strategy(rsi, z_score, time_frame))
    /\ UNCHANGED <<bt_vars, pm_vars, sel_vars, rm_vars, eh_vars>>

ScalpingStrategy(ema_fast, ema_slow, rsi, time_frame) ==
    /\ signal_ret' = Evaluated("scalping_strategy", time_frame,
                               scalping_strategy(ema_fast, ema_slow, rsi, time_frame))
    /\ UNCHANGED <<bt_vars, pm_vars, sel_vars, rm_vars, eh_vars>>

CointegrationStrategy(p_value, z_score, time_frame) ==
    /\ signal_ret' = Evaluated("cointegration_strategy", time_frame,
                               cointegration_strategy(p_value, z_score, time_frame))
    /\ UNCHANGED <<bt_vars, pm_vars, sel_vars, rm_vars, eh_vars>>

\* no rule has been evaluated
SignalIdle == signal_ret = NoSignal

SignalNext ==
    \/ \E p, s, l \in Levels, tf \in SignalTimeFrames : TrendFollowing(p, s, l, tf)
    \/ \E z \in ZScores, r \in RSIs, tf \in SignalTimeFrames : MeanReversion(z, r, tf)
    \/ \E p, u, l, e \in Levels, tf \in SignalTimeFrames : BreakoutStrategy(p, u, l, e, tf)
    \/ \E r \in RSIs, z \in ZScores, tf \in SignalTimeFrames : MomentumStrategy(r, z, tf)
    \/ \E f, sl \in Levels, r \in RSIs, tf \in SignalTimeFrames : ScalpingStrategy(f, sl, r, tf)
    \/ \E p \in PValues, z \in ZScores, tf \in SignalTimeFrames : CointegrationStrategy(p, z, tf)

(***************************************************************************)
(* A position that is only closed: lock_profit and partial_closing called  *)
(* in any order, each call handed the size the call before it returned.    *)
(* The latest call is recorded with its arguments; for partial_closing     *)
(* also how many calls in a row were made at the same price and time frame *)
(* and the size the first of them was handed.                              *)
(***************************************************************************)
ClosingPrices == {R(90), R(101), R(102), R(105), R(120)}

ClosingTimeFrames == {"1m", "5m", "1h", "1D", "15m"}

\* the levels argument: None (the default), or a list of the caller's
LevelArgs == {<<>>, <<Rat(1, 100)>>, <<R(5)>>}

LockThresholds == {Rat(2, 100), R(1)}

ClosingSizes == {R(10), Rat(5, 2)}

NoClosing == [op |-> "none", current_price |-> Zero, time_frame |-> "", levels |-> <<>>,
              before |-> Zero, raised |-> "none", value |-> Zero, aux |-> Zero,
              streak |-> 0, start |-> Zero]

ClosingOutcome(op, current_price, time_frame, levels, r, streak, start) ==
    [op |-> op, current_price |-> current_price, time_frame |-> time_frame,
     levels |-> levels, before |-> position_size, raised |-> r.raised,
     value |-> r.value, aux |-> r.aux, streak |-> streak, start |-> start]

LockProfitAt(current_price, lock_threshold, time_frame) ==
    /\ calls < MaxCalls
    /\ LET r == lock_profit(current_price, entry_price, position_size, lock_threshold,
                            time_frame) IN
         /\ position_size' = Kept(position_size, r)
         /\ ret' = ClosingOutcome("lock_profit", current_price, time_frame, <<>>, r,
                                  0, Zero)
    /\ calls' = calls + 1
    /\ UNCHANGED <<trailing_stop_buffer, entry_price, direction, min_position,
                   max_position, trailing_stop_price>>
    /\ UNCHANGED <<bt_vars, sig_vars, sel_vars, rm_vars, eh_vars>>

\* the call continues a row of partial_closing calls at one price and time frame
ContinuesRow(current_price, time_frame) ==
    /\ ret.op = "partial_closing"
    /\ ret.raised = "none"
    /\ ret.current_price = current_price
    /\ ret.time_frame = time_frame

PartialClosingAt(current_price, levels, time_frame) ==
    /\ calls < MaxCalls
    /\ LET r == partial_closing(current_price, entry_price, position_size, levels,
                                time_frame) IN
         /\ position_size' = Kept(position_size, r)
         /\ ret' = ClosingOutcome("partial_closing", current_price, time_frame, levels, r,
                                  IF ContinuesRow(current_price, time_frame)
                                  THEN ret.streak + 1 ELSE 1,
                                  IF ContinuesRow(current_price, time_frame)
                                  THEN ret.start ELSE position_size)
    /\ calls' = calls + 1
    /\ UNCHANGED <<trailing_stop_buffer, entry_price, direction, min_position,
                   max_position, trailing_stop_price>>
    /\ UNCHANGED <<bt_vars, sig_vars, sel_vars, rm_vars, eh_vars>>

\* PositionManagement.__init__ and the caller's open long position
ClosingInit ==
    /\ trailing_stop_buffer = Rat(1, 100)
    /\ entry_price = R(100)
    /\ trailing_stop_price = R(100)
    /\ min_position = Zero
    /\ max_position = Zero
    /\ position_size \in ClosingSizes
    /\ direction = "long"
    /\ calls = 0
    /\ ret = NoClosing

ClosingNext ==
    \/ \E p \in ClosingPrices, th \in LockThresholds, tf \in ClosingTimeFrames :
           LockProfitAt(p, th, tf)
    \/ \E p \in ClosingPrices, l \in LevelArgs, tf \in ClosingTimeFrames :
           PartialClosingAt(p, l, tf)

(***************************************************************************)
(* StrategySelector: select_strategy, execute_strategy and the two         *)
(* thread-pool fan-outs.  A registered strategy is a callable; what it     *)
(* does with (asset_data, time_frame) is fixed when the selector is built: *)
(* it returns a value determined by its arguments, it raises, or it never  *)
(* returns.  The data stored under an identifier is named by the           *)
(* identifier.                                                             *)
(***************************************************************************)
\* strategy_map of select_strategy
strategy_map ==
    ("trend" :> [allowed_timeframes |-> <<"1m", "5m", "1h", "4h", "1D">>,
                 strategies |-> <<"trend_following", "scalping">>]) @@
    ("range" :> [allowed_timeframes |-> <<"5m", "15m", "30m">>,
                 strategies |-> <<"mean_reversion", "scalping">>]) @@
    ("volatility" :> [allowed_timeframes |-> <<"15m", "1h", "4h", "1D">>,
                      strategies |-> <<"breakout_strategy", "momentum_strategy">>])

SeqSet(s) == {s[i] : i \in DOMAIN s}

\* select_strategy without the fallback of an unrecognized market condition
select_strategy_NoFallback(market_condition, time_frame) ==
    IF market_condition \notin DOMAIN strategy_map THEN Raised("KeyError")
    ELSE Returned(strategy_map[market_condition].strategies)

select_strategy(market_condition, time_frame) ==
    LET mc == IF market_condition \notin DOMAIN strategy_map
              THEN "trend" ELSE market_condition
        tf == IF time_frame \notin SeqSet(strategy_map[mc].allowed_timeframes)
              THEN strategy_map[mc].allowed_timeframes[1] ELSE time_frame
    IN  Returned(strategy_map[mc].strategies)

\* Python's None as the result of an evaluation
None == <<>>

\* an empty dict
EmptyDict == [k \in {} |-> <<>>]

\* d.get(k, default)
Get(d, k, default) == IF k \in DOMAIN d THEN d[k] ELSE default

\* d[k] = v
Put(d, k, v) == [x \in DOMAIN d \cup {k} |-> IF x = k THEN v ELSE d[x]]

\* strategy(asset_data, time_frame) of a callable that returns or raises
strategy_call(strategy_name, asset_data, time_frame) ==
    IF <<strategy_name, asset_data>> \in raising THEN Raised("Exception")
    ELSE Returned(<<strategy_name, asset_data, time_frame>>)

\* execute_strategy handing the exception to its caller as the result
execute_strategy_ErrorAsResult(strategy_name, asset_identifier, asset_data, time_frame) ==
    IF strategy_name \notin strategies THEN None
    ELSE LET r == strategy_call(strategy_name, asset_data, time_frame) IN
         IF r.raised = "none" THEN r.value ELSE <<r.raised>>

execute_strategy(strategy_name, asset_identifier, asset_data, time_frame) ==
    IF strategy_name \notin strategies THEN None
    ELSE LET r == strategy_call(strategy_name, asset_data, time_frame) IN
         IF r.raised = "none" THEN r.value ELSE None

\* the call strategy(asset_data, time_frame) of task t of job never returns
Hangs(job, t) ==
    /\ job.selected_strategies[t] \in strategies
    /\ <<job.selected_strategies[t], job.asset_data>> \in hanging

\* a run_concurrent_strategies call: its arguments, where it stands, the
\* state of the future of each selected strategy, the futures as_completed
\* has yielded so far, and its results dict
NewJob(pool, asset_identifier, asset_data, selected_strategies, time_frame) ==
    [pool |-> pool, asset_identifier |-> asset_identifier, asset_data |-> asset_data,
     selected_strategies |-> selected_strategies, time_frame |-> time_frame,
     status |-> "queued",
     tasks |-> [t \in DOMAIN selected_strategies |-> "queued"],
     yielded |-> <<>>,
     results |-> EmptyDict]

\* threads of the outer pool that run a job of the same pool as job j
outer_pool_busy(j) ==
    Cardinality({k \in DOMAIN jobs : /\ jobs[k].pool = jobs[j].pool
                                     /\ jobs[k].status = "running"})

\* the per-job pool taking its threads from the pool its own job runs in
inner_pool_busy_SharedWithOuter(j) ==
    Cardinality({t \in DOMAIN jobs[j].tasks : jobs[j].tasks[t] = "running"})
        + outer_pool_busy(j)

\* threads busy in the pool that job j created for itself
inner_pool_busy(j) ==
    Cardinality({t \in DOMAIN jobs[j].tasks : jobs[j].tasks[t] = "running"})

\* the name a finished future is stored under, taken in completion order
futures_key_ByCompletion(job, t) ==
    job.selected_strategies[Len(job.yielded) + 1]

\* futures[future]: the name the future was submitted under
futures_key(job, t) == job.selected_strategies[t]

\* the as_completed loop over the futures of a pool ending at the first result
FanInComplete_FirstResult(pool) ==
    \/ \A j \in DOMAIN jobs : jobs[j].pool = pool => jobs[j].status = "collected"
    \/ \E j \in DOMAIN jobs : jobs[j].pool = pool /\ jobs[j].status = "collected"

\* the as_completed loop over the futures of a pool is exhausted
FanInComplete(pool) ==
    \A j \in DOMAIN jobs : jobs[j].pool = pool => jobs[j].status = "collected"

\* the strategies of a pair selected by the market condition filed under its name
pairwise_strategies_ByMarketCondition(pair_name) ==
    select_strategy(Get(market_conditions, pair_name, "volatility"),
                    Get(time_frames, pair_name, "1h")).value

\* the strategies submitted for a pair
pairwise_strategies(pair_name) ==
    select_strategy("volatility", Get(time_frames, pair_name, "1h")).value

\* the time frame of a pair's call read from time_frames, as for an asset
pairwise_time_frame_FromTimeFrames(pair_name) == Get(time_frames, pair_name, "1h")

\* the time frame handed to run_concurrent_strategies for a pair
pairwise_time_frame(pair_name) == "1h"

NoSelectorReturn == [op |-> "none", value |-> <<>>]

sel_config == <<strategies, max_concurrent_strategies, raising, hanging>>

sel_args == <<assets_data, market_conditions, time_frames, pairwise_data>>

\* a call of select_strategy
SelectStrategy(market_condition, time_frame) ==
    /\ sel_pc = "idle"
    /\ sel_pc' = "selected"
    /\ sel_ret' = [op |-> "select_strategy", market_condition |-> market_condition,
                   time_frame |-> time_frame,
                   outcome |-> select_strategy(market_condition, time_frame)]
    /\ UNCHANGED <<sel_config, sel_args, jobs, overall_results>>
    /\ UNCHANGED <<bt_vars, pm_vars, sig_vars, rm_vars, eh_vars>>

\* a call of run_concurrent_strategies by the caller's own thread: the
\* futures are submitted
RunConcurrentStrategies(asset_identifier, selected_strategies, time_frame) ==
    /\ sel_pc = "idle"
    /\ sel_pc' = "direct"
    /\ jobs' = <<[NewJob("direct", asset_identifier, asset_identifier,
                         selected_strategies, time_frame) EXCEPT !.status = "running"]>>
    /\ UNCHANGED <<sel_config, sel_args, overall_results, sel_ret>>
    /\ UNCHANGED <<bt_vars, pm_vars, sig_vars, rm_vars, eh_vars>>

\* a call of run_multiple_assets: one run_concurrent_strategies call per
\* asset is submitted to the outer pool
RunMultipleAssets(ad, mc, tfs, pd) ==
    /\ sel_pc = "idle"
    /\ sel_pc' = "assets"
    /\ assets_data' = ad
    /\ market_conditions' = mc
    /\ time_frames' = tfs
    /\ pairwise_data' = pd
    /\ overall_results' = EmptyDict
    /\ jobs' = [i \in DOMAIN ad |->
                  NewJob("assets", ad[i], ad[i],
                         select_strategy(Get(mc, ad[i], "trend"),
                                         Get(tfs, ad[i], "1h")).value,
                         Get(tfs, ad[i], "1h"))]
    /\ UNCHANGED <<sel_config, sel_ret>>
    /\ UNCHANGED <<bt_vars, pm_vars, sig_vars, rm_vars, eh_vars>>

\* a free thread of the outer pool takes the oldest queued job
StartJob(j) ==
    /\ sel_pc \in {"assets", "pairs"}
    /\ jobs[j].status = "queued"
    /\ \A k \in DOMAIN jobs : k < j => jobs[k].status # "queued"
    /\ outer_pool_busy(j) < max_concurrent_strategies
    /\ jobs' = [jobs EXCEPT ![j].status = "running"]
    /\ UNCHANGED <<sel_config, sel_args, sel_pc, overall_results, sel_ret>>
    /\ UNCHANGED <<bt_vars, pm_vars, sig_vars, rm_vars, eh_vars>>

\* a free thread of the job's own pool takes its oldest queued future
StartTask(j, t) ==
    /\ jobs[j].status = "running"
    /\ jobs[j].tasks[t] = "queued"
    /\ \A u \in DOMAIN jobs[j].tasks : u < t => jobs[j].tasks[u] # "queued"
    /\ inner_pool_busy(j) < max_concurrent_strategies
    /\ jobs' = [jobs EXCEPT ![j].tasks[t] = "running"]
    /\ UNCHANGED <<sel_config, sel_args, sel_pc, overall_results, sel_ret>>
    /\ UNCHANGED <<bt_vars, pm_vars, sig_vars, rm_vars, eh_vars>>

\* execute_strategy returns in its thread
FinishTask(j, t) ==
    /\ jobs[j].tasks[t] = "running"
    /\ ~Hangs(jobs[j], t)
    /\ jobs' = [jobs EXCEPT ![j].tasks[t] = "done"]
    /\ UNCHANGED <<sel_config, sel_args, sel_pc, overall_results, sel_ret>>
    /\ UNCHANGED <<bt_vars, pm_vars, sig_vars, rm_vars, eh_vars>>

\* as_completed hands a finished future to the loop of run_concurrent_strategies
CollectTask(j, t) ==
    /\ jobs[j].status = "running"
    /\ jobs[j].tasks[t] = "done"
    /\ jobs' = [jobs EXCEPT
                  ![j].tasks[t] = "collected",
                  ![j].yielded = Append(@, t),
                  ![j].results = Put(@, futures_key(jobs[j], t),
                                     execute_strategy(jobs[j].selected_strategies[t],
                                                      jobs[j].asset_identifier,
                                                      jobs[j].asset_data,
                                                      jobs[j].time_frame))]
    /\ UNCHANGED <<sel_config, sel_args, sel_pc, overall_results, sel_ret>>
    /\ UNCHANGED <<bt_vars, pm_vars, sig_vars, rm_vars, eh_vars>>

\* the loop of job j is exhausted and its pool is shut down
LoopDone(j) ==
    /\ jobs[j].status = "running"
    /\ \A t \in DOMAIN jobs[j].tasks : jobs[j].tasks[t] = "collected"

\* run_concurrent_strategies returns to the thread of the outer pool
ReturnJob(j) ==
    /\ sel_pc \in {"assets", "pairs"}
    /\ LoopDone(j)
    /\ jobs' = [jobs EXCEPT ![j].status = "done"]
    /\ UNCHANGED <<sel_config, sel_args, sel_pc, overall_results, sel_ret>>
    /\ UNCHANGED <<bt_vars, pm_vars, sig_vars, rm_vars, eh_vars>>

\* run_concurrent_strategies returns to the caller
RunConcurrentStrategiesReturn ==
    /\ sel_pc = "direct"
    /\ LoopDone(1)
    /\ jobs' = [jobs EXCEPT ![1].status = "done"]
    /\ sel_pc' = "returned"
    /\ sel_ret' = [op |-> "run_concurrent_strategies", value |-> jobs[1].results]
    /\ UNCHANGED <<sel_config, sel_args, overall_results>>
    /\ UNCHANGED <<bt_vars, pm_vars, sig_vars, rm_vars, eh_vars>>

\* as_completed hands a finished job to the loop of run_multiple_assets
CollectJob(j) ==
    /\ sel_pc = jobs[j].pool
    /\ jobs[j].status = "done"
    /\ jobs' = [jobs EXCEPT ![j].status = "collected"]
    /\ overall_results' = Put(overall_results, jobs[j].asset_identifier, jobs[j].results)
    /\ UNCHANGED <<sel_config, sel_args, sel_pc, sel_ret>>
    /\ UNCHANGED <<bt_vars, pm_vars, sig_vars, rm_vars, eh_vars>>

\* the single-asset loop is over: one call per pair is submitted to the second pool
SubmitPairs ==
    /\ sel_pc = "assets"
    /\ FanInComplete("assets")
    /\ pairwise_data # <<>>
    /\ sel_pc' = "pairs"
    /\ jobs' = jobs \o [i \in DOMAIN pairwise_data |->
                          NewJob("pairs", pairwise_data[i], pairwise_data[i],
                                 pairwise_strategies(pairwise_data[i]),
                                 pairwise_time_frame(pairwise_data[i]))]
    /\ UNCHANGED <<sel_config, sel_args, overall_results, sel_ret>>
    /\ UNCHANGED <<bt_vars, pm_vars, sig_vars, rm_vars, eh_vars>>

\* run_multiple_assets returns overall_results
RunMultipleAssetsReturn ==
    /\ \/ sel_pc = "assets" /\ FanInComplete("assets") /\ pairwise_data = <<>>
       \/ sel_pc = "pairs" /\ FanInComplete("pairs")
    /\ sel_pc' = "returned"
    /\ sel_ret' = [op |-> "run_multiple_assets", value |-> overall_results]
    /\ UNCHANGED <<sel_config, sel_args, jobs, overall_results>>
    /\ UNCHANGED <<bt_vars, pm_vars, sig_vars, rm_vars, eh_vars>>

\* the strategies dict handed to __init__
Registries ==
    { {"trend_following", "scalping", "mean_reversion", "breakout_strategy",
       "momentum_strategy"},
      {"trend_following", "mean_reversion", "breakout_strategy"} }

\* max_concurrent_strategies handed to __init__
WorkerCounts == {1, 2}

\* which evaluations raise and which never return
Behaviours ==
    { [raising |-> {}, hanging |-> {}],
      [raising |-> {<<"scalping", "A1">>, <<"breakout_strategy", "P1">>},
       hanging |-> {}],
      [raising |-> {}, hanging |-> {<<"scalping", "A1">>}],
      [raising |-> {<<"trend_following", "A1">>},
       hanging |-> {<<"momentum_strategy", "P1">>}] }

\* arguments of select_strategy
MarketConditions == {"trend", "range", "volatility", "sideways", ""}

SelectorTimeFrames == {"1m", "15m", "1h", "2h"}

\* arguments of run_concurrent_strategies
SelectedLists ==
    { <<>>, <<"scalping", "scalping">>, <<"trend_following", "scalping">>,
      <<"scalping", "unknown_strategy", "trend_following">> }

\* arguments of run_multiple_assets, dicts in insertion order
AssetsData == { <<>>, <<"A1">>, <<"A1", "A2">> }

MarketConditionMaps ==
    { EmptyDict, ("A1" :> "range"), ("A1" :> "volatility") @@ ("A2" :> "sideways") }

TimeFrameMaps == { EmptyDict, ("A1" :> "5m") @@ ("P1" :> "2h") }

PairwiseData == { <<>>, <<"P1">>, <<"A1", "P1">> }

\* StrategySelector.__init__
SelectorInit ==
    /\ strategies \in Registries
    /\ max_concurrent_strategies \in WorkerCounts
    /\ \E b \in Behaviours : raising = b.raising /\ hanging = b.hanging
    /\ sel_pc = "idle"
    /\ assets_data = <<>>
    /\ market_conditions = EmptyDict
    /\ time_frames = EmptyDict
    /\ pairwise_data = <<>>
    /\ jobs = <<>>
    /\ overall_results = EmptyDict
    /\ sel_ret = NoSelectorReturn

\* no selector is in use
SelectorIdle ==
    /\ strategies = {}
    /\ max_concurrent_strategies = 5
    /\ raising = {}
    /\ hanging = {}
    /\ sel_pc = "idle"
    /\ assets_data = <<>>
    /\ market_conditions = EmptyDict
    /\ time_frames = EmptyDict
    /\ pairwise_data = <<>>
    /\ jobs = <<>>
    /\ overall_results = EmptyDict
    /\ sel_ret = NoSelectorReturn

\* the steps the pool threads and the waiting callers take on their own
SelectorProgress ==
    \/ \E j \in DOMAIN jobs : StartJob(j)
    \/ \E j \in DOMAIN jobs : \E t \in DOMAIN jobs[j].tasks : StartTask(j, t)
    \/ \E j \in DOMAIN jobs : \E t \in DOMAIN jobs[j].tasks : FinishTask(j, t)
    \/ \E j \in DOMAIN jobs : \E t \in DOMAIN jobs[j].tasks : CollectTask(j, t)
    \/ \E j \in DOMAIN jobs : ReturnJob(j)
    \/ RunConcurrentStrategiesReturn
    \/ \E j \in DOMAIN jobs : CollectJob(j)
    \/ SubmitPairs
    \/ RunMultipleAssetsReturn

SelectorNext ==
    \/ \E mc \in MarketConditions, tf \in SelectorTimeFrames : SelectStrategy(mc, tf)
    \/ \E s \in SelectedLists, tf \in SelectorTimeFrames :
           RunConcurrentStrategies("A1", s, tf)
    \/ \E ad \in AssetsData, mc \in MarketConditionMaps, tfs \in TimeFrameMaps,
          pd \in PairwiseData : RunMultipleAssets(ad, mc, tfs, pd)
    \/ \E j \in DOMAIN jobs : StartJob(j)
    \/ \E j \in DOMAIN jobs : \E t \in DOMAIN jobs[j].tasks : StartTask(j, t)
    \/ \E j \in DOMAIN jobs : \E t \in DOMAIN jobs[j].tasks : FinishTask(j, t)
    \/ \E j \in DOMAIN jobs : \E t \in DOMAIN jobs[j].tasks : CollectTask(j, t)
    \/ \E j \in DOMAIN jobs : ReturnJob(j)
    \/ RunConcurrentStrategiesReturn
    \/ \E j \in DOMAIN jobs : CollectJob(j)
    \/ SubmitPairs
    \/ RunMultipleAssetsReturn

(***************************************************************************)
(* RiskManagement called on its own: every call leaves the configuration   *)
(* as it found it; the latest call is recorded with its arguments, the     *)
(* configuration it found, and what it returned or raised.                 *)
(***************************************************************************)
\* check_drawdown_limit halting already at the limit
check_drawdown_limit_NonStrict(current_drawdown) ==
    IF RLe(max_drawdown, current_drawdown) THEN FALSE ELSE TRUE

check_drawdown_limit(current_drawdown) ==
    IF RLt(max_drawdown, current_drawdown) THEN FALSE ELSE TRUE

\* validate_trade_conditions with an open spread interval and a closed trade limit
validate_trade_conditions_StrictBounds(cur_spread, min_spread_threshold, max_spread_threshold, current_open_trades, max_open_trades) ==
    IF ~(RLt(min_spread_threshold, cur_spread) /\ RLt(cur_spread, max_spread_threshold))
    THEN FALSE
    ELSE IF current_open_trades > max_open_trades THEN FALSE
    ELSE TRUE

validate_trade_conditions(cur_spread, min_spread_threshold, max_spread_threshold, current_open_trades, max_open_trades) ==
    IF ~(RLe(min_spread_threshold, cur_spread) /\ RLe(cur_spread, max_spread_threshold))
    THEN FALSE
    ELSE IF current_open_trades >= max_open_trades THEN FALSE
    ELSE TRUE

\* round(x, 2): the nearest multiple of 0.01, a tie going to the even one
Round2(x) ==
    LET n == x[1] * 100
        q == n \div x[2]
        r == n - q * x[2]
        up == 2 * r > x[2] \/ (2 * r = x[2] /\ q % 2 = 1)
    IN  Rat(IF up THEN q + 1 ELSE q, 100)

\* a position size that divides by the ratio of the pips to the pip value
position_size_of_DividesByRatio(balance, risk, stop_loss_pips, pip_value) ==
    LET risk_amount == RMul(balance, risk)
        size == RDiv(risk_amount, RDiv(stop_loss_pips, pip_value))
    IN  Round2(size)

\* the body of calculate_position_size for an object with the given
\* account_balance and risk_per_trade
position_size_of(balance, risk, stop_loss_pips, pip_value) ==
    LET risk_amount == RMul(balance, risk)
        size == RDiv(risk_amount, RMul(stop_loss_pips, pip_value))
    IN  Round2(size)

calculate_position_size(stop_loss_pips, pip_value) ==
    position_size_of(account_balance, risk_per_trade, stop_loss_pips, pip_value)

risk_config == <<account_balance, leverage, max_drawdown, risk_per_trade,
                 default_lot_size>>

\* the attributes of the RiskManagement object
RiskConfig ==
    [account_balance |-> account_balance, leverage |-> leverage,
     max_drawdown |-> max_drawdown, risk_per_trade |-> risk_per_trade,
     default_lot_size |-> default_lot_size]

NoRiskCall == [op |-> "none", args |-> <<>>, config |-> <<>>, raised |-> "none",
               value |-> Zero]

\* a call with its arguments, the attributes it found, and its outcome
RiskOutcome(op, args, r) ==
    [op |-> op, args |-> args, config |-> RiskConfig, raised |-> r.raised,
     value |-> r.value]

CheckDrawdownLimit(current_drawdown) ==
    /\ risk_ret' = RiskOutcome("check_drawdown_limit",
                               [current_drawdown |-> current_drawdown],
                               Returned(check_drawdown_limit(current_drawdown)))
    /\ UNCHANGED risk_config
    /\ UNCHANGED <<bt_vars, pm_vars, sig_vars, sel_vars, eh_vars>>

ValidateTradeConditions(cur_spread, min_spread_threshold, max_spread_threshold, current_open_trades, max_open_trades) ==
    /\ risk_ret' = RiskOutcome("validate_trade_conditions",
                               [spread |-> cur_spread,
                                min_spread_threshold |-> min_spread_threshold,
                                max_spread_threshold |-> max_spread_threshold,
                                current_open_trades |-> current_open_trades,
                                max_open_trades |-> max_open_trades],
                               Returned(validate_trade_conditions(
                                   cur_spread, min_spread_threshold,
                                   max_spread_threshold, current_open_trades,
                                   max_open_trades)))
    /\ UNCHANGED risk_config
    /\ UNCHANGED <<bt_vars, pm_vars, sig_vars, sel_vars, eh_vars>>

CalculatePositionSize(stop_loss_pips, pip_value) ==
    /\ risk_ret' = RiskOutcome("calculate_position_size",
                               [stop_loss_pips |-> stop_loss_pips, pip_value |-> pip_value],
                               Returned(calculate_position_size(stop_loss_pips, pip_value)))
    /\ UNCHANGED risk_config
    /\ UNCHANGED <<bt_vars, pm_vars, sig_vars, sel_vars, eh_vars>>

StopLoss(entry, dir, stop_loss_buffer, time_frame) ==
    /\ risk_ret' = RiskOutcome("calculate_stop_loss",
                               [entry_price |-> entry, direction |-> dir,
                                buffer |-> stop_loss_buffer, time_frame |-> time_frame],
                               calculate_stop_loss(entry, dir, stop_loss_buffer,
                                                   time_frame))
    /\ UNCHANGED risk_config
    /\ UNCHANGED <<bt_vars, pm_vars, sig_vars, sel_vars, eh_vars>>

TakeProfit(entry, dir, take_profit_buffer, time_frame) ==
    /\ risk_ret' = RiskOutcome("calculate_take_profit",
                               [entry_price |-> entry, direction |-> dir,
                                buffer |-> take_profit_buffer, time_frame |-> time_frame],
                               calculate_take_profit(entry, dir, take_profit_buffer,
                                                     time_frame))
    /\ UNCHANGED risk_config
    /\ UNCHANGED <<bt_vars, pm_vars, sig_vars, sel_vars, eh_vars>>

\* arguments of RiskManagement.__init__
RiskSettings ==
    { [account_balance |-> R(10000), leverage |-> R(30), max_drawdown |-> Rat(1, 10),
       risk_per_trade |-> Rat(1, 100), default_lot_size |-> Rat(1, 10)],
      [account_balance |-> R(500), leverage |-> R(1), max_drawdown |-> Rat(1, 5),
       risk_per_trade |-> Rat(1, 50), default_lot_size |-> R(1)] }

\* arguments of the calls
Drawdowns == {Zero, Rat(1, 10), Rat(3, 20), Rat(1, 5), Rat(1, 4)}

Spreads == {Rat(1, 2), R(1), R(2), R(3), Rat(7, 2)}

MinSpreads == {R(1), R(2)}

MaxSpreads == {R(1), R(3)}

OpenTrades == {0, 1, 2}

MaxOpenTrades == {1, 2}

StopLossPips == {R(10), Rat(25, 2), R(15), R(30)}

PipValues == {R(1), Rat(15, 2), R(10)}

\* account balances and risk fractions of other RiskManagement objects
AccountBalances == {R(500), R(1000), R(10000)}

RiskFractions == {Rat(1, 100), Rat(1, 50), Rat(3, 100)}

RiskEntries == {R(1), R(100), Rat(5, 4)}

RiskDirections == {"long", "short", "flat", ""}

RiskTimeFrames == {"1m", "1h", "1D", "15m", "1H"}

RiskInit ==
    /\ \E s \in RiskSettings :
          /\ account_balance = s.account_balance
          /\ leverage = s.leverage
          /\ max_drawdown = s.max_drawdown
          /\ risk_per_trade = s.risk_per_trade
          /\ default_lot_size = s.default_lot_size
    /\ risk_ret = NoRiskCall

\* no RiskManagement object is in use
RiskIdle ==
    /\ account_balance = Zero
    /\ leverage = Zero
    /\ max_drawdown = Zero
    /\ risk_per_trade = Zero
    /\ default_lot_size = Zero
    /\ risk_ret = NoRiskCall

RiskNext ==
    \/ \E d \in Drawdowns : CheckDrawdownLimit(d)
    \/ \E p \in StopLossPips, v \in PipValues : CalculatePositionSize(p, v)
    \/ \E s \in Spreads, lo \in MinSpreads, hi \in MaxSpreads, n \in OpenTrades,
          m \in MaxOpenTrades : ValidateTradeConditions(s, lo, hi, n, m)
    \/ \E e \in RiskEntries, d \in RiskDirections, b \in Buffers, tf \in RiskTimeFrames :
           StopLoss(e, d, b, tf)
    \/ \E e \in RiskEntries, d \in RiskDirections, b \in Buffers, tf \in RiskTimeFrames :
           TakeProfit(e, d, b, tf)

\* BacktestingEngine.__init__
BacktestInit ==
    /\ data \in Frames
    /\ initial_balance \in InitialBalances
    /\ \E c \in CostSettings :
         /\ commission = c.commission
         /\ spread = c.spread
         /\ slippage = c.slippage
    /\ trades = <<>>
    /\ balance_history = <<>>
    /\ current_balance = initial_balance
    /\ current_position = 0
    /\ bar = 0
    /\ pc = "init"
    /\ last_call = NoCall
    /\ executed = 0
    /\ runs = 0

BacktestNext ==
    \/ RunBacktestStart
    \/ \E signal \in Signals : RunBacktestBar(signal)
    \/ RunBacktestReturn

Init == BacktestInit /\ PositionIdle /\ SignalIdle /\ SelectorIdle /\ RiskIdle /\ HandlerIdle

Next == BacktestNext

Spec == Init /\ [][Next]_vars

\* an idle engine whose data was never run
BacktestIdle ==
    /\ data = <<>>
    /\ initial_balance = Zero
    /\ commission = Zero
    /\ spread = Zero
    /\ slippage = Zero
    /\ trades = <<>>
    /\ balance_history = <<>>
    /\ current_balance = Zero
    /\ current_position = 0
    /\ bar = 0
    /\ pc = "idle"
    /\ last_call = NoCall
    /\ executed = 0
    /\ runs = 0

PositionSpecInit == PositionInit /\ BacktestIdle /\ SignalIdle /\ SelectorIdle /\ RiskIdle /\ HandlerIdle

PositionSpec == PositionSpecInit /\ [][PositionNext]_vars

SignalSpecInit == SignalIdle /\ BacktestIdle /\ PositionIdle /\ SelectorIdle /\ RiskIdle /\ HandlerIdle

SignalSpec == SignalSpecInit /\ [][SignalNext]_vars

\* BacktestingEngine.__init__ of an engine that is run more than once
RerunInit ==
    /\ data \in RerunFrames
    /\ initial_balance \in RerunBalances
    /\ \E c \in CostSettings :
         /\ commission = c.commission
         /\ spread = c.spread
         /\ slippage = c.slippage
    /\ trades = <<>>
    /\ balance_history = <<>>
    /\ current_balance = initial_balance
    /\ current_position = 0
    /\ bar = 0
    /\ pc = "init"
    /\ last_call = NoCall
    /\ executed = 0
    /\ runs = 0

RerunNext ==
    \/ RunBacktestStart
    \/ \E signal \in Signals : RunBacktestBar(signal)
    \/ RunBacktestReturn
    \/ RunBacktestAgain

RerunSpecInit == RerunInit /\ PositionIdle /\ SignalIdle /\ SelectorIdle /\ RiskIdle /\ HandlerIdle

RerunSpec == RerunSpecInit /\ [][RerunNext]_vars

ClosingSpecInit == ClosingInit /\ BacktestIdle /\ SignalIdle /\ SelectorIdle /\ RiskIdle /\ HandlerIdle

ClosingSpec == ClosingSpecInit /\ [][ClosingNext]_vars

HandlerSpecInit == HandlerInit /\ BacktestIdle /\ PositionIdle /\ SignalIdle /\ SelectorIdle /\ RiskIdle

HandlerSpec == HandlerSpecInit /\ [][HandlerNext]_vars

\* the thread that called handle_critical_exception keeps running
HandlerFairSpec == HandlerSpec /\ WF_vars(HandlerProgress)

SelectorSpecInit == SelectorInit /\ BacktestIdle /\ PositionIdle /\ SignalIdle /\ RiskIdle /\ HandlerIdle

SelectorSpec == SelectorSpecInit /\ [][SelectorNext]_vars

\* every runnable pool thread is eventually scheduled, a callable that is not
\* hung returns, and a caller blocked in as_completed or at the end of a with
\* block resumes once what it waits for is there
SelectorFairSpec == SelectorSpec /\ WF_vars(SelectorProgress)

RiskSpecInit == RiskInit /\ BacktestIdle /\ PositionIdle /\ SignalIdle /\ SelectorIdle /\ HandlerIdle

RiskSpec == RiskSpecInit /\ [][RiskNext]_vars

(***************************************************************************)
(* Claims about BacktestingEngine, checked under Spec.                     *)
(***************************************************************************)
RejectedBuy(c) == c.signal > 0 /\ RLt(c.balance_before, c.total_cost)

RejectedSell(c) == c.signal < 0 /\ Abs(c.signal) > c.position_before

ExecutedBuy(c) == c.signal > 0 /\ RLe(c.total_cost, c.balance_before)

ExecutedSell(c) == c.signal < 0 /\ Abs(c.signal) <= c.position_before

\* C1: from a non-negative initial balance, with non-negative Close, spread,
\* slippage >= 0 and commission in [0,1), current_balance is never negative
\* under any sequence of bars and non-zero signals.
C1_BalanceNeverNegative == RLe(Zero, current_balance)

\* a buy was rejected for insufficient balance after earlier trades executed
C1_Witness ==
    /\ RejectedBuy(last_call)
    /\ executed > 0
    /\ RLt(Zero, last_call.total_cost)
    /\ RLe(Zero, current_balance)

\* C2: the ledger holds one entry per executed trade; a rejected buy or sell
\* appends nothing, so its length is the number of trades that executed.
C2_LedgerCountsExecutedTrades == Len(trades) = executed

\* C3: when _execute_trade rejects a trade (buy with balance < total_cost,
\* sell with |signal| > position), current_balance and current_position are
\* exactly what they were before the call.
C3_RejectedTradeLeavesStateUnchanged ==
    (RejectedBuy(last_call) \/ RejectedSell(last_call))
        => /\ current_balance = last_call.balance_before
           /\ current_position = last_call.position_before

\* a sell larger than a non-empty holding was rejected
C3_Witness ==
    /\ RejectedSell(last_call)
    /\ last_call.position_before > 0
    /\ current_position = last_call.position_before

\* C4: for every executed trade the execution price is moved against the
\* trader: a buy pays at least Close per unit, a sell receives at most Close
\* per unit (before commission).
C4_PriceMovesAgainstTrader ==
    /\ ExecutedBuy(last_call) => RLe(last_call.price, last_call.trade_price)
    /\ ExecutedSell(last_call) => RLe(last_call.trade_price, last_call.price)

PreviousSnapshot(i) ==
    IF i = 1
    THEN [balance |-> initial_balance, position |-> 0]
    ELSE [balance |-> balance_history[i - 1].balance,
          position |-> balance_history[i - 1].position]

LedgerEntriesAt(timestamp) ==
    { k \in 1..Len(trades) : trades[k].timestamp = timestamp }

\* C5: after run_backtest on a fresh engine over n bars balance_history has
\* n entries; entry i carries bar i's timestamp and the balance and position
\* as they stand after bar i (the ledger entry's, when the bar called
\* _execute_trade; the previous snapshot's otherwise); bars are taken in
\* input order.
C5_OneSnapshotPerBarInOrder ==
    /\ Len(balance_history) = bar
    /\ pc = "done" => Len(balance_history) = Len(data)
    /\ \A i \in 1..Len(balance_history) :
         /\ balance_history[i].timestamp = data[i].timestamp
         /\ \A k \in LedgerEntriesAt(data[i].timestamp) :
              /\ balance_history[i].balance = trades[k].balance
              /\ balance_history[i].position = trades[k].position
         /\ LedgerEntriesAt(data[i].timestamp) = {} =>
              /\ balance_history[i].balance = PreviousSnapshot(i).balance
              /\ balance_history[i].position = PreviousSnapshot(i).position
    /\ bar > 0 =>
         /\ balance_history[bar].balance = current_balance
         /\ balance_history[bar].position = current_position

\* a finished run with a traded bar, an untraded bar and a changed balance
C5_Witness ==
    /\ pc = "done"
    /\ Len(balance_history) = MaxBars
    /\ \E i, j \in 1..Len(balance_history) :
         /\ LedgerEntriesAt(data[i].timestamp) # {}
         /\ LedgerEntriesAt(data[j].timestamp) = {}
         /\ balance_history[i].balance # initial_balance
    /\ data[1].timestamp > data[2].timestamp

(***************************************************************************)
(* Claims about PositionManagement and RiskManagement, checked under       *)
(* PositionSpec.                                                           *)
(***************************************************************************)
\* the labels the operation's valid_timeframes holds
SupportedTimeframes(op) ==
    CASE op \in {"scale_in", "scale_out"} -> DOMAIN ScaleTimeframes
      [] op = "apply_trailing_stop"       -> DOMAIN TrailingTimeframes
      [] op = "lock_profit"               -> DOMAIN LockTimeframes
      [] op = "partial_closing"           -> DOMAIN PartialTimeframes
      [] op = "calculate_stop_loss"       -> DOMAIN StopLossTimeframes
      [] op = "calculate_take_profit"     -> DOMAIN TakeProfitTimeframes
      [] OTHER                            -> {}

\* C6: the trailing stop never moves against the position: each stop that
\* apply_trailing_stop returns at a supported time frame, fed from the stop
\* held before, is no lower (long) or no higher (short) than that stop.
C6_TrailingStopNeverMovesAgainstPosition ==
    (ret.op = "apply_trailing_stop" /\ ret.raised = "none")
        => /\ direction = "long" => RLe(ret.before, trailing_stop_price)
           /\ direction = "short" => RLe(trailing_stop_price, ret.before)

\* C7: a size within [min_position, max_position] is still within it after
\* a scale_in or scale_out call at a supported time frame with any
\* scale_step >= 0.
C7_ScalingKeepsSizeWithinBounds ==
    (/\ ret.op \in {"scale_in", "scale_out"}
     /\ ret.raised = "none"
     /\ RLe(min_position, ret.before)
     /\ RLe(ret.before, max_position))
        => /\ RLe(min_position, position_size)
           /\ RLe(position_size, max_position)

\* C8: no scale_in, scale_out, lock_profit or partial_closing call returns a
\* negative size for a positive one or a positive size for a negative one.
C8_NoOperationInvertsDirection ==
    (/\ ret.op \in {"scale_in", "scale_out", "lock_profit", "partial_closing"}
     /\ ret.raised = "none")
        => /\ ~(RLt(Zero, ret.before) /\ RLt(ret.value, Zero))
           /\ ~(RLt(ret.before, Zero) /\ RLt(Zero, ret.value))

\* C10: a PositionManagement operation or calculate_stop_loss /
\* calculate_take_profit called with a time frame its table does not hold
\* (the default "1H" included) falls back and returns a result: the
\* unsupported time frame never surfaces as an error.
C10_UnsupportedTimeframeNeverRaised ==
    (ret.op # "none" /\ ret.time_frame \notin SupportedTimeframes(ret.op))
        => ret.raised # "KeyError"

(***************************************************************************)
(* Claims about EntryExitStrategy, checked under SignalSpec.               *)
(***************************************************************************)
RuleTimeframes(rule) ==
    CASE rule = "trend_following"        -> DOMAIN TrendTimeframes
      [] rule = "mean_reversion"         -> DOMAIN MeanReversionTimeframes
      [] rule = "breakout_strategy"      -> DOMAIN BreakoutTimeframes
      [] rule = "momentum_strategy"      -> DOMAIN MomentumTimeframes
      [] rule = "scalping_strategy"      -> DOMAIN ScalpingTimeframes
      [] rule = "cointegration_strategy" -> DOMAIN CointegrationTimeframes
      [] OTHER                           -> {}

\* C9: every signal rule given a time frame that is no key of its table
\* substitutes its "1H" entry, which the table holds, and returns BUY, SELL
\* or HOLD; it never raises.
C9_UnsupportedTimeframeFallsBackTo1H ==
    (signal_ret.rule # "none" /\ signal_ret.time_frame \notin RuleTimeframes(signal_ret.rule))
        => /\ signal_ret.raised = "none"
           /\ signal_ret.signal \in {"BUY", "SELL", "HOLD"}
           /\ signal_ret.used = "1H"
           /\ "1H" \in RuleTimeframes(signal_ret.rule)

\* C26: starting from position 0, under every sequence of bars and signals
\* current_position is never negative, and neither is any position the
\* ledger or the balance history records: a sell larger than the holding is
\* rejected.
C26_PositionNeverNegative ==
    /\ current_position >= 0
    /\ \A i \in DOMAIN trades : trades[i].position >= 0
    /\ \A i \in DOMAIN balance_history : balance_history[i].position >= 0

\* a sell of more than the units held was rejected and the holding kept
C26_Witness ==
    /\ RejectedSell(last_call)
    /\ last_call.position_before > 0
    /\ current_position = last_call.position_before

\* the position and the balance before the i-th call of _execute_trade
PositionBefore(i) == IF i = 1 THEN 0 ELSE trades[i - 1].position

BalanceBefore(i) == IF i = 1 THEN initial_balance ELSE trades[i - 1].balance

ExecutedAt(i) == trades[i].position # PositionBefore(i)

\* an executed buy of q units followed, as the next trade, by an executed
\* sell of q units at the same price
RoundTripAt(i) ==
    /\ i + 1 \in DOMAIN trades
    /\ trades[i].signal > 0
    /\ ExecutedAt(i)
    /\ trades[i + 1].signal = -trades[i].signal
    /\ ExecutedAt(i + 1)
    /\ trades[i + 1].price = trades[i].price

\* C27: an executed buy of q units at Close p followed at once by an
\* executed sell of q units at the same Close restores current_position
\* and changes current_balance by exactly
\* -2 * commission * p * (1 + spread + slippage) * q, which is never a gain.
C27_RoundTripCostsTwoCommissions ==
    \A i \in DOMAIN trades :
       RoundTripAt(i) =>
          /\ trades[i + 1].position = PositionBefore(i)
          /\ trades[i + 1].balance =
                RSub(BalanceBefore(i),
                     RMul(RMul(R(2), commission),
                          RMul(trades[i].price, R(trades[i].signal))))
          /\ RLe(trades[i + 1].balance, BalanceBefore(i))

\* a round trip at a positive price under a positive commission: the
\* balance ended lower
C27_Witness ==
    \E i \in DOMAIN trades :
       /\ RoundTripAt(i)
       /\ RLt(Zero, commission)
       /\ RLt(Zero, trades[i].price)
       /\ RLt(trades[i + 1].balance, BalanceBefore(i))

(***************************************************************************)
(* Claims about an engine that is run more than once, checked under        *)
(* RerunSpec.                                                              *)
(***************************************************************************)
\* C22: an executed buy of q units at Close p lowers current_balance by
\* p * (1 + spread + slippage) * q * (1 + commission) and raises
\* current_position by q; with balance 1000, p = 10, q = 1, spread 0.0002,
\* slippage 0.0001 and commission 0.0005 the balance becomes 989.9919985
\* and the position 1.
C22_ExecutedBuyCostsPriceSpreadAndCommission ==
    /\ ExecutedBuy(last_call) =>
          /\ current_balance =
                RSub(last_call.balance_before,
                     RMul(RMul(RMul(last_call.price, RAdd(RAdd(One, spread), slippage)),
                               R(last_call.signal)),
                          RAdd(One, commission)))
          /\ current_position = last_call.position_before + last_call.signal
    /\ (/\ last_call.signal = 1
        /\ last_call.price = R(10)
        /\ last_call.balance_before = R(1000)
        /\ last_call.position_before = 0
        /\ spread = Rat(2, 10000)
        /\ slippage = Rat(1, 10000)
        /\ commission = Rat(5, 10000))
          => /\ current_balance = Rat(1979983997, 2000000)
             /\ current_position = 1

\* the scenario: the first bar of the first run buys one unit at Close 10
C22_Witness ==
    /\ initial_balance = R(1000)
    /\ commission = Rat(5, 10000)
    /\ runs = 1
    /\ bar = 1
    /\ last_call.signal = 1
    /\ last_call.price = R(10)
    /\ last_call.balance_before = R(1000)
    /\ current_balance = Rat(1979983997, 2000000)
    /\ current_position = 1

\* C28: run_backtest assigns none of the engine's state when it starts:
\* every run appends one snapshot per bar to the same balance history
\* (k * n entries after k runs over n bars, the bars of each run the same as
\* those of the run before), and balance and position are carried from the
\* end of one run into the next.
C28_RunBacktestNeverResets ==
    /\ pc = "done" => Len(balance_history) = runs * Len(data)
    /\ pc = "loop" => Len(balance_history) = (runs - 1) * Len(data) + bar
    /\ balance_history # <<>> =>
          /\ current_balance = balance_history[Len(balance_history)].balance
          /\ current_position = balance_history[Len(balance_history)].position
    /\ \A i \in DOMAIN balance_history :
          i > Len(data) =>
             balance_history[i].timestamp = balance_history[i - Len(data)].timestamp
    /\ Len(trades) <= Len(balance_history)
    /\ \A i \in DOMAIN trades :
          i > 1 => trades[i].position - trades[i - 1].position \in {0, trades[i].signal}

\* the second run is over and has sold the unit the first run ended with
C28_Witness ==
    /\ pc = "done"
    /\ runs = 2
    /\ Len(balance_history) = 2 * Len(data)
    /\ balance_history[Len(data)].position = 1
    /\ current_position = 0
    /\ RLt(balance_history[Len(data)].balance, current_balance)

(***************************************************************************)
(* Claims about StrategySelector, checked under SelectorSpec; the claim    *)
(* about termination under SelectorFairSpec.                               *)
(***************************************************************************)
\* run_concurrent_strategies call j has returned
Returned_rcs(j) == jobs[j].status \in {"done", "collected"}

\* C11: when run_concurrent_strategies has returned, the entry of a strategy
\* whose callable raised, or whose name is not registered, is None, and the
\* entry of every other selected strategy is the value its callable
\* returned; every selected strategy was evaluated and collected (none was
\* cancelled), and the caller receives the map.
C11_FailureIsolatedToItsStrategy ==
    /\ \A j \in DOMAIN jobs :
          Returned_rcs(j) =>
             /\ DOMAIN jobs[j].results = SeqSet(jobs[j].selected_strategies)
             /\ \A t \in DOMAIN jobs[j].tasks : jobs[j].tasks[t] = "collected"
             /\ \A n \in DOMAIN jobs[j].results :
                   jobs[j].results[n] =
                      IF n \notin strategies \/ <<n, jobs[j].asset_data>> \in raising
                      THEN None
                      ELSE <<n, jobs[j].asset_data, jobs[j].time_frame>>
    /\ (sel_pc = "returned" /\ sel_ret.op = "run_concurrent_strategies")
          => sel_ret.value = jobs[1].results

\* a returned call in which one callable raised, one name was not
\* registered, and a third strategy delivered its value
C11_Witness ==
    /\ sel_pc = "returned"
    /\ sel_ret.op = "run_concurrent_strategies"
    /\ \E n, u, m \in DOMAIN sel_ret.value :
          /\ n \in strategies /\ <<n, jobs[1].asset_data>> \in raising
          /\ sel_ret.value[n] = None
          /\ u \notin strategies /\ sel_ret.value[u] = None
          /\ sel_ret.value[m] # None

\* C12: the map run_multiple_assets returns has exactly the asset symbols of
\* assets_data and the pair names of pairwise_data as its keys, whatever
\* raised inside the evaluations.
C12_EveryAssetAndPairIsAKey ==
    (sel_pc = "returned" /\ sel_ret.op = "run_multiple_assets")
        => DOMAIN sel_ret.value = SeqSet(assets_data) \cup SeqSet(pairwise_data)

\* a returned call over two assets and a pair in which an evaluation raised
C12_Witness ==
    /\ sel_pc = "returned"
    /\ sel_ret.op = "run_multiple_assets"
    /\ Len(assets_data) = 2
    /\ pairwise_data # <<>>
    /\ \E k \in DOMAIN sel_ret.value : \E n \in DOMAIN sel_ret.value[k] :
          n \in strategies /\ <<n, k>> \in raising /\ sel_ret.value[k][n] = None

\* the results dict fixed by the arguments of a run_concurrent_strategies call
ExpectedResults(asset_identifier, asset_data, selected_strategies, time_frame) ==
    [n \in SeqSet(selected_strategies) |->
        execute_strategy(n, asset_identifier, asset_data, time_frame)]

\* the map fixed by the arguments of a run_multiple_assets call: a pair
\* filed under the name of an asset replaces the asset's entry
ExpectedOverall ==
    [k \in SeqSet(assets_data) \cup SeqSet(pairwise_data) |->
        IF k \in SeqSet(pairwise_data)
        THEN ExpectedResults(k, k, <<"breakout_strategy", "momentum_strategy">>, "1h")
        ELSE ExpectedResults(k, k,
                             select_strategy(Get(market_conditions, k, "trend"),
                                             Get(time_frames, k, "1h")).value,
                             Get(time_frames, k, "1h"))]

\* C13: with callables whose result is fixed by their arguments, the map a
\* run_concurrent_strategies call returns and the map a run_multiple_assets
\* call returns are fixed by the call's arguments: they are the same in
\* every order in which the futures start, finish and are yielded, also
\* when a name is selected twice.
C13_ResultIndependentOfCompletionOrder ==
    /\ \A j \in DOMAIN jobs :
          Returned_rcs(j) =>
             jobs[j].results = ExpectedResults(jobs[j].asset_identifier,
                                               jobs[j].asset_data,
                                               jobs[j].selected_strategies,
                                               jobs[j].time_frame)
    /\ (sel_pc = "returned" /\ sel_ret.op = "run_multiple_assets")
          => sel_ret.value = ExpectedOverall

\* a returned run_multiple_assets call in which the futures of one job were
\* yielded against the order of submission and those of another in it
C13_Witness ==
    /\ sel_pc = "returned"
    /\ sel_ret.op = "run_multiple_assets"
    /\ \E j, k \in DOMAIN jobs :
          jobs[j].yielded = <<2, 1>> /\ jobs[k].yielded = <<1, 2>>

\* the evaluations a run_multiple_assets call makes with its arguments
EvaluatedByCall ==
    LET of_assets == UNION { { <<n, a>> : n \in SeqSet(select_strategy(
                                   Get(market_conditions, a, "trend"),
                                   Get(time_frames, a, "1h")).value) } :
                             a \in SeqSet(assets_data) }
        of_pairs  == UNION { { <<n, p>> : n \in {"breakout_strategy",
                                                 "momentum_strategy"} } :
                             p \in SeqSet(pairwise_data) }
    IN  { e \in of_assets \cup of_pairs : e[1] \in strategies }

\* C14: a run_multiple_assets call none of whose evaluations hangs
\* eventually returns, with one worker as with two and for every number of
\* assets and pairs; a call that has returned made no evaluation that hangs.
C14_ReturnsIffEveryEvaluationTerminates ==
    /\ []((sel_pc = "assets" /\ EvaluatedByCall \cap hanging = {})
             => <>(sel_pc = "returned"))
    /\ []((sel_pc = "returned" /\ sel_ret.op = "run_multiple_assets")
             => EvaluatedByCall \cap hanging = {})

\* a call over two assets and two pairs has returned with a single worker
\* per pool
C14_Witness ==
    /\ sel_pc = "returned"
    /\ sel_ret.op = "run_multiple_assets"
    /\ max_concurrent_strategies = 1
    /\ Len(assets_data) = 2
    /\ Len(pairwise_data) = 2

\* C15: select_strategy raises nothing; for a market condition other than
\* trend, range and volatility it returns the strategies of trend, and for
\* every market condition and every time frame, allowed or not, the
\* strategies of that market condition.
C15_SelectStrategyNeverFails ==
    sel_ret.op = "select_strategy" =>
        /\ sel_ret.outcome.raised = "none"
        /\ sel_ret.outcome.value =
              CASE sel_ret.market_condition = "range"
                      -> <<"mean_reversion", "scalping">>
                [] sel_ret.market_condition = "volatility"
                      -> <<"breakout_strategy", "momentum_strategy">>
                [] OTHER -> <<"trend_following", "scalping">>

\* an unrecognized market condition with a time frame trend does not allow
C15_Witness ==
    /\ sel_ret.op = "select_strategy"
    /\ sel_ret.market_condition = "sideways"
    /\ sel_ret.time_frame = "2h"
    /\ sel_ret.outcome.value = <<"trend_following", "scalping">>

\* C16: every call submitted for a pair is given breakout_strategy and
\* momentum_strategy, whatever market_conditions and time_frames hold for
\* the pair's name, and is submitted only when every single-asset call has
\* returned and been stored in overall_results.
C16_PairsUseVolatilitySetAfterAssetFanOut ==
    \A j \in DOMAIN jobs :
       jobs[j].pool = "pairs" =>
          /\ jobs[j].selected_strategies = <<"breakout_strategy", "momentum_strategy">>
          /\ Returned_rcs(j) =>
                DOMAIN jobs[j].results = {"breakout_strategy", "momentum_strategy"}
          /\ \A k \in DOMAIN jobs :
                jobs[k].pool = "assets" => jobs[k].status = "collected"
          /\ SeqSet(assets_data) \subseteq DOMAIN overall_results

\* a pair evaluated under a name for which market_conditions says range and
\* time_frames holds an entry
C16_Witness ==
    \E j \in DOMAIN jobs :
       /\ jobs[j].pool = "pairs"
       /\ jobs[j].status = "collected"
       /\ jobs[j].asset_identifier \in DOMAIN market_conditions
       /\ market_conditions[jobs[j].asset_identifier] = "range"
       /\ jobs[j].asset_identifier \in DOMAIN time_frames

\* C30: every callable evaluated for a pair receives the time frame "1h",
\* whatever time_frames holds under the pair's name; that entry goes to
\* select_strategy only, whose result is the same for every time frame.
C30_PairCallablesReceive1h ==
    \A j \in DOMAIN jobs :
       jobs[j].pool = "pairs" =>
          /\ jobs[j].time_frame = "1h"
          /\ \A n \in DOMAIN jobs[j].results :
                jobs[j].results[n] # None => jobs[j].results[n][3] = "1h"
          /\ \A tf \in SelectorTimeFrames \cup {Get(time_frames, jobs[j].asset_identifier, "1h")} :
                select_strategy("volatility", tf).value = jobs[j].selected_strategies

\* a pair whose time_frames entry is "2h" has been evaluated and a callable
\* returned what it received
C30_Witness ==
    \E j \in DOMAIN jobs :
       /\ jobs[j].pool = "pairs"
       /\ jobs[j].status = "collected"
       /\ jobs[j].asset_identifier \in DOMAIN time_frames
       /\ time_frames[jobs[j].asset_identifier] = "2h"
       /\ \E n \in DOMAIN jobs[j].results : jobs[j].results[n] = <<n, jobs[j].asset_data, "1h">>

C18_TradeConditionsRejectExactlyOutsideBounds ==
    risk_ret.op = "validate_trade_conditions" =>
        LET a == risk_ret.args IN
        /\ risk_ret.value = FALSE
              <=> \/ RLt(a.spread, a.min_spread_threshold)
                  \/ RLt(a.max_spread_threshold, a.spread)
                  \/ a.current_open_trades >= a.max_open_trades
        /\ risk_ret.value \in {TRUE, FALSE}

\* a spread on the upper bound with one trade short of the maximum is accepted
C18_Witness ==
    /\ risk_ret.op = "validate_trade_conditions"
    /\ risk_ret.args.spread = risk_ret.args.max_spread_threshold
    /\ risk_ret.args.min_spread_threshold # risk_ret.args.max_spread_threshold
    /\ risk_ret.args.current_open_trades + 1 = risk_ret.args.max_open_trades
    /\ risk_ret.value = TRUE

\* C19: calculate_stop_loss and calculate_take_profit called with a
\* direction other than "long" and "short" raise ValueError, for every
\* entry price, buffer and time frame label, supported or not.
C19_InvalidDirectionRaisesValueError ==
    (/\ risk_ret.op \in {"calculate_stop_loss", "calculate_take_profit"}
     /\ risk_ret.args.direction \notin {"long", "short"})
        => risk_ret.raised = "ValueError"

C21_PositionSizeMonotone ==
    risk_ret.op = "calculate_position_size" =>
        LET b == risk_ret.config.account_balance
            k == risk_ret.config.risk_per_trade
            p == risk_ret.args.stop_loss_pips
            v == risk_ret.args.pip_value
        IN  /\ risk_ret.value = Round2(RDiv(RMul(b, k), RMul(p, v)))
            /\ \A b2 \in AccountBalances :
                  RLe(b, b2) => RLe(risk_ret.value, position_size_of(b2, k, p, v))
            /\ \A k2 \in RiskFractions :
                  RLe(k, k2) => RLe(risk_ret.value, position_size_of(b, k2, p, v))
            /\ \A p2 \in StopLossPips :
                  RLe(p, p2) => RLe(position_size_of(b, k, p2, v), risk_ret.value)
            /\ \A v2 \in PipValues :
                  RLe(v, v2) => RLe(position_size_of(b, k, p, v2), risk_ret.value)

\* a size that rounding changed, with a larger balance, a larger risk
\* fraction, more pips and a larger pip value at hand to compare with
C21_Witness ==
    /\ risk_ret.op = "calculate_position_size"
    /\ risk_ret.value # RDiv(RMul(risk_ret.config.account_balance,
                                  risk_ret.config.risk_per_trade),
                             RMul(risk_ret.args.stop_loss_pips, risk_ret.args.pip_value))
    /\ \E b2 \in AccountBalances : RLt(risk_ret.config.account_balance, b2)
    /\ \E k2 \in RiskFractions : RLt(risk_ret.config.risk_per_trade, k2)
    /\ \E p2 \in StopLossPips :
          /\ RLt(risk_ret.args.stop_loss_pips, p2)
          /\ RLt(position_size_of(risk_ret.config.account_balance,
                                  risk_ret.config.risk_per_trade, p2,
                                  risk_ret.args.pip_value), risk_ret.value)
    /\ \E v2 \in PipValues : RLt(risk_ret.args.pip_value, v2)

(***************************************************************************)
(* Claims about closing a position, checked under ClosingSpec.             *)
(***************************************************************************)
\* C23: lock_profit at a time frame of its table returns
\* (0.75 * position_size, 0.25 * position_size) when
\* (current_price - entry_price) / entry_price is at least the time frame's
\* threshold and (position_size, 0) otherwise; the remaining size and the
\* liquidated amount add up to position_size.
C23_LockProfitLiquidatesQuarterAtThreshold ==
    (ret.op = "lock_profit" /\ ret.time_frame \in DOMAIN LockTimeframes) =>
        LET fraction == RDiv(RSub(ret.current_price, entry_price), entry_price)
            threshold == RDiv(LockTimeframes[ret.time_frame], R(100))
        IN  /\ ret.raised = "none"
            /\ IF RLe(threshold, fraction)
               THEN /\ ret.value = RMul(Rat(3, 4), ret.before)
                    /\ ret.aux = RMul(Rat(1, 4), ret.before)
               ELSE /\ ret.value = ret.before
                    /\ ret.aux = Zero
            /\ RAdd(ret.value, ret.aux) = ret.before

\* a profit of exactly the 2% of "1h" locks a quarter
C23_Witness ==
    /\ ret.op = "lock_profit"
    /\ ret.time_frame = "1h"
    /\ ret.current_price = R(102)
    /\ ret.value = RMul(Rat(3, 4), ret.before)
    /\ ret.aux = RMul(Rat(1, 4), ret.before)

RECURSIVE RPow(_, _)
RPow(x, n) == IF n = 0 THEN One ELSE RMul(x, RPow(x, n - 1))

\* how many levels of the time frame the price has reached
LevelsReached(current_price, time_frame) ==
    Cardinality({k \in DOMAIN PartialTimeframes[time_frame] :
                   RLe(RMul(entry_price, RAdd(One, PartialTimeframes[time_frame][k])),
                       current_price)})

\* C25: one partial_closing call with the price at or above m levels of the
\* time frame leaves size * 0.9^m, and k calls in a row at that price, each
\* handed the size the call before returned, leave size * 0.9^(m*k): every
\* call fires all m levels again.
C25_PartialClosingRefiresEveryLevel ==
    (ret.op = "partial_closing" /\ ret.raised = "none") =>
        LET m == LevelsReached(ret.current_price, ret.time_frame) IN
        /\ ret.value = RMul(ret.before, RPow(Rat(9, 10), m))
        /\ ret.value = RMul(ret.start, RPow(Rat(9, 10), m * ret.streak))
        /\ position_size = ret.value

\* two calls in a row with both levels reached: 0.9^4 of the size is left
C25_Witness ==
    /\ ret.op = "partial_closing"
    /\ ret.raised = "none"
    /\ ret.streak = 2
    /\ LevelsReached(ret.current_price, ret.time_frame) = 2
    /\ ret.value = RMul(ret.start, Rat(6561, 10000))

Positions(event, detail) ==
    {i \in DOMAIN eh_trace : eh_trace[i].event = event /\ eh_trace[i].detail = detail}

\* SystemExit is raised only after the critical records and, after them,
\* the attempt to reach the mail server
CriticalThenNotifyThenExit ==
    eh_out = "SystemExit" =>
        /\ Positions("log", "CRITICAL") # {}
        /\ Positions("smtp", "connect") # {}
        /\ \A i \in Positions("log", "CRITICAL") :
              \A j \in {k \in DOMAIN eh_trace : eh_trace[k].event = "smtp"} : i < j

\* a failed delivery leaves an error record and raises nothing
FailureOnlyLogged ==
    /\ eh_out \in {"none", "SystemExit"}
    /\ (eh_pc \in {"halt", "raised"} /\ eh_smtp # "delivers") =>
           Positions("log", "ERROR") # {}

\* C24: every call of handle_critical_exception ends in SystemExit, raised
\* only after the critical records and then the notification attempt; a
\* failed delivery is only logged and does not keep SystemExit from being
\* raised.
C24_CriticalAlwaysEndsInSystemExit ==
    /\ []CriticalThenNotifyThenExit
    /\ []FailureOnlyLogged
    /\ (eh_pc # "idle") ~> (eh_out = "SystemExit")

=============================================================================
